---------------------------- MODULE Spec2Model ----------------------------
(***************************************************************************)
(* HyurimBot: the facility matcher, the detail extractor, the crawl        *)
(* orchestrator with its SQLite persistence, and the Flask route handlers. *)
(*                                                                         *)
(* Text is a sequence of one-character strings, so that strip(), replace() *)
(* and the `in` operator act on characters as in Python.  The Korean       *)
(* syllables of the facility names are written by their romanisation       *)
(* ("ho" = U+D638, "yeon" = U+C5F0, ...): one syllable is one element.     *)
(***************************************************************************)
EXTENDS Integers, Sequences, FiniteSets, TLC

VARIABLES
    target_facility_name,   \* matcher input: the name looked for
    facility_name,          \* matcher input: inner_text of cells[1]
    accepted,               \* matcher output: the row was taken as target_row
    mpc,                    \* matcher position: "input" | "compared"
    accommodations,         \* table accommodations: rows in rowid order
    crawled_discount_policies, \* table crawled_discount_policies
    pc,                     \* position of the request being served
    request,                \* [app, route, body] of the request being served
    target,                 \* facility_name read back by the detailed crawl
    page,                   \* the page the browser shows: [rows, view]
    log,                    \* calls the request has made on the browser and the DB
    target_row,             \* index of the row the matcher selected, 0 = None
    detailed_data,          \* what _extract_popup_details returned
    scraped,                \* the list the basic crawl collected
    result,                 \* what the crawl function returned
    response,               \* what the route handler answered
    browser,                \* the browser of the request: "none" | "open" | "closed" | "stopped"
    session,                \* Flask session of the client: the keys it holds
    visits,                 \* what each request of the client led to, in order
    call,                   \* a function called on its own: [fn, arg], or None
    returned,               \* the values the calls of that function returned, in order
    cache_file,             \* hyurimbot_embeddings.pkl: None or Some(cache_data)
    engines,                \* the embedding engines constructed, by name
    imports,                \* integrated_app: which engine imports succeeded
    recommendation_engine,  \* integrated_app.recommendation_engine: None or Some(engine)
    vector_search_engine,   \* integrated_app.vector_search_engine: None or Some(engine)
    connections             \* the SQLite connections of the requests that are saving

mvars == <<target_facility_name, facility_name, accepted, mpc>>
dbvars == <<accommodations, crawled_discount_policies>>
cvars == <<pc, request, target, page, log, target_row, detailed_data, scraped,
           result, response, browser>>
\* the variables of the components that take no part in a crawl
avars == <<session, visits>>
fvars == <<call, returned>>
evars == <<cache_file, engines>>
gvars == <<imports, recommendation_engine, vector_search_engine>>
kvars == <<connections>>
xvars == <<avars, fvars, evars, gvars, kvars>>
\* what a step of one component leaves alone
beside_auth == <<mvars, dbvars, cvars, fvars, evars, gvars, kvars>>
beside_call == <<mvars, dbvars, cvars, avars, evars, gvars, kvars>>
beside_embed == <<mvars, dbvars, cvars, avars, gvars, kvars>>
beside_engine == <<mvars, dbvars, cvars, avars, fvars, evars, kvars>>
beside_connections == <<mvars, dbvars, cvars, avars, fvars, evars, gvars>>
vars == <<mvars, dbvars, cvars, xvars>>

----------------------------------------------------------------------------
(* Bounds *)

\* longest scraped cell text enumerated for the matcher
MaxCellLen == 3
\* longest target name enumerated for the matcher
MaxTargetLen == 2

----------------------------------------------------------------------------
(* Python str operations used by the crawler *)

\* characters str.strip() removes at both ends
Whitespace == {" ", "\t", "\n"}

RECURSIVE LStrip(_)
LStrip(s) ==
    IF s = <<>> THEN <<>>
    ELSE IF Head(s) \in Whitespace THEN LStrip(Tail(s)) ELSE s

RECURSIVE RStrip(_)
RStrip(s) ==
    IF s = <<>> THEN <<>>
    ELSE IF s[Len(s)] \in Whitespace THEN RStrip(SubSeq(s, 1, Len(s) - 1)) ELSE s

\* s.strip()
Strip(s) == RStrip(LStrip(s))

\* s.replace(ch, "") for a one-character ch
Remove(s, ch) == SelectSeq(s, LAMBDA c : c # ch)

\* a in b (substring test; the empty string is in every string)
In(a, b) ==
    \E i \in 0..(Len(b) - Len(a)) : SubSeq(b, i + 1, i + Len(a)) = a

----------------------------------------------------------------------------
(* Facility matcher: the body of the row loop of _extract_popup_details *)

\* a mutation of Clean that forgets .replace(".", "")
Clean_KeepsPeriod(s) == Remove(Strip(s), " ")

\* name.strip().replace(" ", "").replace(".", "")
Clean(s) == Remove(Remove(Strip(s), " "), ".")

\* target_clean in facility_clean or facility_clean in target_clean
NameMatches(target_name, name) ==
    \/ In(Clean(target_name), Clean(name))
    \/ In(Clean(name), Clean(target_name))

----------------------------------------------------------------------------
(* More of Python: dicts, optional elements, multi-character replace, split *)

\* an element handle that query_selector may not find: <<>> or <<x>>
None == <<>>
Some(x) == <<x>>

\* d.get(k) is not None
Has(d, k) == k \in DOMAIN d

\* d.update(e) / {**d, **e}
Update(d, e) ==
    [k \in DOMAIN d \cup DOMAIN e |-> IF k \in DOMAIN e THEN e[k] ELSE d[k]]

EmptyDict == [k \in {} |-> 0]

\* s.replace(a b, r) for the two-character pattern a b and one character r
RECURSIVE Replace2(_, _, _, _)
Replace2(s, a, b, r) ==
    IF Len(s) < 2 THEN s
    ELSE IF s[1] = a /\ s[2] = b
         THEN <<r>> \o Replace2(SubSeq(s, 3, Len(s)), a, b, r)
         ELSE <<s[1]>> \o Replace2(Tail(s), a, b, r)

\* s.split(ch): the pieces between the occurrences of ch
RECURSIVE Split(_, _)
Split(s, ch) ==
    IF \A i \in 1..Len(s) : s[i] # ch THEN <<s>>
    ELSE LET i == CHOOSE j \in 1..Len(s) :
                      s[j] = ch /\ \A k \in 1..(j - 1) : s[k] # ch
         IN  <<SubSeq(s, 1, i - 1)>> \o Split(SubSeq(s, i + 1, Len(s)), ch)

Digits == {"0", "1", "2", "3", "4", "5", "6", "7", "8", "9"}

DigitValue(c) ==
    CASE c = "0" -> 0 [] c = "1" -> 1 [] c = "2" -> 2 [] c = "3" -> 3
      [] c = "4" -> 4 [] c = "5" -> 5 [] c = "6" -> 6 [] c = "7" -> 7
      [] c = "8" -> 8 [] c = "9" -> 9

\* int(s) for a non-empty string of decimal digits
RECURSIVE IntOf(_)
IntOf(s) ==
    IF s = <<>> THEN 0
    ELSE 10 * IntOf(SubSeq(s, 1, Len(s) - 1)) + DigitValue(s[Len(s)])

\* s.isdigit()
IsDigit(s) == s # <<>> /\ \A i \in 1..Len(s) : s[i] \in Digits

\* the longest run of digits starting at position i
RECURSIVE DigitRun(_, _)
DigitRun(s, i) ==
    IF i > Len(s) \/ s[i] \notin Digits THEN <<>>
    ELSE <<s[i]>> \o DigitRun(s, i + 1)

\* re.search(r'(\d+)', s): the first run of digits, <<>> when there is none
FirstDigitRun(s) ==
    IF \A i \in 1..Len(s) : s[i] \notin Digits THEN <<>>
    ELSE DigitRun(s, CHOOSE i \in 1..Len(s) :
                        s[i] \in Digits /\ \A j \in 1..(i - 1) : s[j] \notin Digits)

\* the words of the site that the code looks for; one element each
Won == "won"                         \* '원'
OffSeason == "bisugi"                \* '비수기'
PeakSeason == "seongsugi"            \* '성수기'
PriceInfo == "gagyeokjeongbo"        \* '가격정보'
BasicInfo == "gibonjeongbo"          \* '기본정보'
Amenities == "pyeonuisiseol"         \* '편의시설'
WeekdayFee == "pyeongilyogeum"       \* '평일요금'
WeekendFee == "jumalyogeum"          \* '주말요금'
InOutTime == "ip/toesil sigan"       \* '입/퇴실 시간'
RoomArea == "insil/myeonjeok"        \* '인실/면적'
MaxPeople == "choedaeinwon"          \* '최대인원'

----------------------------------------------------------------------------
(* Price parsing *)

\* a mutation: the thousands separators stay in the text
_parse_price_KeepsComma(price_text) ==
    LET cleaned == Remove(price_text, Won)
        run == FirstDigitRun(cleaned)
    IN  IF run = <<>> THEN 0 ELSE IntOf(run)

\* _parse_price: drop ',' and '원', take the first run of digits, else 0
_parse_price(price_text) ==
    LET cleaned == Remove(Remove(price_text, ","), Won)
        run == FirstDigitRun(cleaned)
    IN  IF run = <<>> THEN 0 ELSE IntOf(run)

\* _parse_price_info: "p1원 / p2원" or "p원" out of the summary row's price cell
_parse_price_info(price_text) ==
    LET prices == [off_weekday |-> 0, off_weekend |-> 0,
                   peak_weekday |-> 0, peak_weekend |-> 0]
        price_parts == Split(price_text, "/")
        bare(t) == Strip(Remove(Remove(t, Won), ","))
    IN  IF price_text = <<>> \/ ~In(<<Won>>, price_text) THEN prices
        ELSE IF Len(price_parts) >= 2
        THEN LET first_price == bare(price_parts[1])
                 second_price == bare(price_parts[2])
                 p1 == IF IsDigit(first_price)
                       THEN [prices EXCEPT !.off_weekday = IntOf(first_price)]
                       ELSE prices
             IN  IF IsDigit(second_price)
                 THEN [p1 EXCEPT !.off_weekend = IntOf(second_price),
                                 !.peak_weekend = IntOf(second_price)]
                 ELSE p1
        ELSE LET single_price == bare(price_text)
             IN  IF IsDigit(single_price)
                 THEN [prices EXCEPT !.off_weekday = IntOf(single_price)]
                 ELSE prices

----------------------------------------------------------------------------
(* Detail extractor.  A table is a sequence of rows [th, td], each the     *)
(* optional text of the row's first th / first td; a view is               *)
(* [tables, usage_tab, paragraphs]: what the selectors return once the     *)
(* detail link has been clicked.                                           *)

Room1 == "bang1"                     \* '방1'
LivingRoom == "geosil"               \* '거실'
Kitchen == "jubang"                  \* '주방'
Bedding == "chimguryu"               \* '침구류'
TV == "TV"
BookingCaution == "yeyaksi juuisahang"   \* '예약시 주의사항'


\* sep.join(parts)
RECURSIVE Join(_, _)
Join(parts, sep) ==
    IF parts = <<>> THEN <<>>
    ELSE IF Len(parts) = 1 THEN parts[1]
    ELSE parts[1] \o sep \o Join(Tail(parts), sep)

\* table.inner_text(): the text of every cell, row after row
RowText(r) == Join(r.th \o r.td, <<"\t">>)
TableText(table) == Join([i \in 1..Len(table) |-> RowText(table[i])], <<"\n">>)

\* for table in tables: if <keyword in table_text>: found = table; break
FirstTable(tables, keywords) ==
    LET hit(i) == \E k \in keywords : In(<<k>>, TableText(tables[i]))
    IN  IF \A i \in 1..Len(tables) : ~hit(i) THEN None
        ELSE Some(tables[CHOOSE i \in 1..Len(tables) :
                            hit(i) /\ \A j \in 1..(i - 1) : ~hit(j)])

RECURSIVE SkipSpace(_, _)
SkipSpace(s, i) ==
    IF i <= Len(s) /\ s[i] \in Whitespace THEN SkipSpace(s, i + 1) ELSE i

\* re.search(r'최대인원\s*:\s*(\d+)', s): the digits of the first match, else <<>>
MaxPeopleMatch(s) ==
    LET digitsAt(i) ==
            IF s[i] # MaxPeople THEN 0
            ELSE LET j == SkipSpace(s, i + 1)
                 IN  IF j > Len(s) \/ s[j] # ":" THEN 0
                     ELSE LET k == SkipSpace(s, j + 1)
                          IN  IF k > Len(s) \/ s[k] \notin Digits THEN 0 ELSE k
        hits == {i \in 1..Len(s) : digitsAt(i) # 0}
    IN  IF hits = {} THEN <<>>
        ELSE DigitRun(s, digitsAt(CHOOSE i \in hits : \A j \in hits : i <= j))

\* the body of the row loop of _extract_basic_info_from_popup
BasicInfoRow(data, row) ==
    IF row.th = None \/ row.td = None THEN data
    ELSE LET header_text == row.th[1]
             cell_text == row.td[1]
         IN  IF In(<<RoomArea>>, header_text)
             THEN LET max_match == MaxPeopleMatch(cell_text)
                  IN  IF max_match # <<>>
                      THEN Update(data, [capacity_maximum |-> IntOf(max_match)])
                      ELSE data
             ELSE IF In(<<Amenities>>, header_text)
             THEN Update(data, [amenities |-> Replace2(Strip(cell_text), ",", " ", ";")])
             ELSE IF In(<<InOutTime>>, header_text)
             THEN LET times == Split(cell_text, "~")
                  IN  IF Len(times) >= 2
                      THEN Update(data, [checkin_time |-> Strip(times[1]),
                                         checkout_time |-> Strip(times[2])])
                      ELSE data
             ELSE data

RECURSIVE BasicInfoRows(_, _)
BasicInfoRows(data, rows) ==
    IF rows = <<>> THEN data
    ELSE BasicInfoRows(BasicInfoRow(data, Head(rows)), Tail(rows))

\* _extract_basic_info_from_popup
_extract_basic_info_from_popup(view) ==
    LET basic_info_table == FirstTable(view.tables, {BasicInfo, Amenities})
    IN  IF basic_info_table = None THEN EmptyDict
        ELSE BasicInfoRows(EmptyDict, basic_info_table[1])

\* a mutation: a header that names no season clears the current season
PriceInfoRow_ResetsSeason(st, row) ==
    LET season ==
            IF row.th = None THEN st.current_season
            ELSE IF In(<<OffSeason>>, row.th[1]) THEN "off"
            ELSE IF In(<<PeakSeason>>, row.th[1]) THEN "peak"
            ELSE ""
        data ==
            IF row.td = None THEN st.data
            ELSE LET cell_text == row.td[1]
                     price == _parse_price(cell_text)
                 IN  IF In(<<WeekdayFee>>, cell_text)
                     THEN IF season = "off"
                          THEN Update(st.data, [price_off_weekday |-> price])
                          ELSE IF season = "peak"
                          THEN Update(st.data, [price_peak_weekday |-> price])
                          ELSE st.data
                     ELSE IF In(<<WeekendFee>>, cell_text)
                     THEN IF season = "off"
                          THEN Update(st.data, [price_off_weekend |-> price])
                          ELSE IF season = "peak"
                          THEN Update(st.data, [price_peak_weekend |-> price])
                          ELSE st.data
                     ELSE st.data
    IN  [data |-> data, current_season |-> season]

\* the body of the row loop of _extract_price_info_from_popup;
\* st = [data, current_season]
PriceInfoRow(st, row) ==
    LET season ==
            IF row.th = None THEN st.current_season
            ELSE IF In(<<OffSeason>>, row.th[1]) THEN "off"
            ELSE IF In(<<PeakSeason>>, row.th[1]) THEN "peak"
            ELSE st.current_season
        data ==
            IF row.td = None THEN st.data
            ELSE LET cell_text == row.td[1]
                     price == _parse_price(cell_text)
                 IN  IF In(<<WeekdayFee>>, cell_text)
                     THEN IF season = "off"
                          THEN Update(st.data, [price_off_weekday |-> price])
                          ELSE IF season = "peak"
                          THEN Update(st.data, [price_peak_weekday |-> price])
                          ELSE st.data
                     ELSE IF In(<<WeekendFee>>, cell_text)
                     THEN IF season = "off"
                          THEN Update(st.data, [price_off_weekend |-> price])
                          ELSE IF season = "peak"
                          THEN Update(st.data, [price_peak_weekend |-> price])
                          ELSE st.data
                     ELSE st.data
    IN  [data |-> data, current_season |-> season]

RECURSIVE PriceInfoRows(_, _)
PriceInfoRows(st, rows) ==
    IF rows = <<>> THEN st
    ELSE PriceInfoRows(PriceInfoRow(st, Head(rows)), Tail(rows))

\* _extract_price_info_from_popup
_extract_price_info_from_popup(view) ==
    LET price_table == FirstTable(view.tables, {PriceInfo, OffSeason, PeakSeason})
    IN  IF price_table = None THEN EmptyDict
        ELSE PriceInfoRows([data |-> EmptyDict, current_season |-> ""],
                           price_table[1]).data

\* first loop over the paragraphs of the usage tab
RECURSIVE UsageParagraphs(_, _)
UsageParagraphs(data, ps) ==
    IF ps = <<>> THEN data
    ELSE LET p_text == Head(ps)
             next ==
                 IF \E w \in {Room1, LivingRoom, Kitchen} : In(<<w>>, p_text)
                 THEN Update(data, [room_composition |-> Strip(p_text)])
                 ELSE IF \E w \in {Bedding, TV} : In(<<w>>, p_text)
                 THEN Update(data, [provided_items |->
                                       Replace2(Strip(p_text), ",", " ", ";")])
                 ELSE data
         IN  UsageParagraphs(next, Tail(ps))

\* second loop: the non-blank paragraphs after the booking caution heading
RECURSIVE RulesParts(_, _)
RulesParts(ps, collecting_rules) ==
    IF ps = <<>> THEN <<>>
    ELSE LET p_text == Head(ps)
         IN  IF In(<<BookingCaution>>, p_text) THEN RulesParts(Tail(ps), TRUE)
             ELSE IF collecting_rules /\ Strip(p_text) # <<>>
             THEN <<Strip(p_text)>> \o RulesParts(Tail(ps), collecting_rules)
             ELSE RulesParts(Tail(ps), collecting_rules)

\* _extract_usage_info_from_popup
_extract_usage_info_from_popup(view) ==
    IF ~view.usage_tab THEN EmptyDict
    ELSE LET data == UsageParagraphs(EmptyDict, view.paragraphs)
             rules_parts == RulesParts(view.paragraphs, FALSE)
         IN  IF rules_parts # <<>>
             THEN Update(data, [booking_rules |-> Join(rules_parts, <<" ">>)])
             ELSE data

\* usage_info when the usage tab gave nothing
DefaultUsageInfo == <<"checkin: 15:00, checkout: 12:00, default rules apply">>

\* the defaults _extract_popup_content starts from
PopupDefaults ==
    [capacity_maximum |-> 0, checkin_time |-> <<>>, checkout_time |-> <<>>,
     price_off_weekday |-> 0, price_off_weekend |-> 0,
     price_peak_weekday |-> 0, price_peak_weekend |-> 0,
     amenities |-> <<>>, room_composition |-> <<>>, provided_items |-> <<>>,
     booking_rules |-> <<>>]

\* _extract_popup_content
_extract_popup_content(view) ==
    LET d1 == Update(PopupDefaults, _extract_basic_info_from_popup(view))
        d2 == Update(d1, _extract_price_info_from_popup(view))
        d3 == Update(d2, _extract_usage_info_from_popup(view))
        usage_info_parts ==
            (IF d3.room_composition # <<>>
             THEN <<<<"[room composition]", "\n">> \o d3.room_composition>> ELSE <<>>)
            \o (IF d3.provided_items # <<>>
                THEN <<<<"[provided items]", "\n">> \o d3.provided_items>> ELSE <<>>)
            \o (IF d3.booking_rules # <<>>
                THEN <<<<"[booking rules]", "\n">> \o d3.booking_rules>> ELSE <<>>)
    IN  Update(d3, [usage_info |->
                       IF usage_info_parts # <<>>
                       THEN Join(usage_info_parts, <<"\n", "\n">>)
                       ELSE DefaultUsageInfo])

\* amenities _extract_table_row_data always reports
RowDefaultAmenities == <<"bedroom, living room, kitchen, bathroom, fridge, TV, AC, heating, cooking">>

\* _extract_table_row_data: None unless the row has six cells
_extract_table_row_data(row) ==
    IF Len(row.cells) >= 6
    THEN LET checkin_time == row.cells[5]
             prices == _parse_price_info(row.cells[6])
         IN  Some([price_off_weekday |-> prices.off_weekday,
                   price_off_weekend |-> prices.off_weekend,
                   price_peak_weekday |-> prices.peak_weekday,
                   price_peak_weekend |-> prices.peak_weekend,
                   amenities |-> RowDefaultAmenities,
                   usage_info |-> <<"checkin: ">> \o Strip(checkin_time)
                                  \o <<", checkout: 11:00, follow the rules">>,
                   checkin_time |-> Strip(checkin_time)])
    ELSE None

----------------------------------------------------------------------------
(* Row scan of _extract_popup_details.  A summary row is                   *)
(* [cells, readable, link]: the texts of its td cells, whether reading it  *)
(* succeeds, and whether it holds a detail link.                           *)

\* the try body of the row loop: the row is taken as target_row
RowAccepted(row, target_name) ==
    /\ row.readable
    /\ Len(row.cells) >= 2
    /\ NameMatches(target_name, row.cells[2])

\* a mutation of the scan: no break, the last accepted row wins
RECURSIVE ScanFrom_NoBreak(_, _, _)
ScanFrom_NoBreak(rows, target_name, i) ==
    IF i > Len(rows) THEN 0
    ELSE LET later == ScanFrom_NoBreak(rows, target_name, i + 1)
         IN  IF later # 0 THEN later
             ELSE IF RowAccepted(rows[i], target_name) THEN i ELSE 0

\* a mutation of the scan: a row that cannot be read ends the loop
RECURSIVE ScanFrom_StopsOnError(_, _, _)
ScanFrom_StopsOnError(rows, target_name, i) ==
    IF i > Len(rows) THEN 0
    ELSE IF ~rows[i].readable THEN 0
    ELSE IF RowAccepted(rows[i], target_name) THEN i
    ELSE ScanFrom_StopsOnError(rows, target_name, i + 1)

\* for row in rows: ... break at the first accepted row; 0 when none
RECURSIVE ScanFrom(_, _, _)
ScanFrom(rows, target_name, i) ==
    IF i > Len(rows) THEN 0
    ELSE IF RowAccepted(rows[i], target_name) THEN i
    ELSE ScanFrom(rows, target_name, i + 1)

\* a mutation: the summary-row fallback also when the detail view has no
\* basic-info or no price table
AfterMatch_FallsBackOnMissingTable(pg, i) ==
    IF pg.rows[i].link
       /\ FirstTable(pg.view.tables, {BasicInfo, Amenities}) # None
       /\ FirstTable(pg.view.tables, {PriceInfo, OffSeason, PeakSeason}) # None
    THEN [calls |-> <<"click", "wait_popup", "popup_content">>,
          data |-> Some(_extract_popup_content(pg.view))]
    ELSE [calls |-> (IF pg.rows[i].link THEN <<"click", "wait_popup">> ELSE <<>>)
                    \o <<"row_data">>,
          data |-> _extract_table_row_data(pg.rows[i])]

\* _extract_popup_details after the scan found row i: click the detail link
\* and read the detail view, or read the summary row when it has no link
AfterMatch(pg, i) ==
    IF pg.rows[i].link
    THEN [calls |-> <<"click", "wait_popup", "popup_content">>,
          data |-> Some(_extract_popup_content(pg.view))]
    ELSE [calls |-> <<"row_data">>,
          data |-> _extract_table_row_data(pg.rows[i])]

\* a mutation: a second scan of the table when the first found nothing
_extract_popup_details_Rescans(pg, target_name) ==
    LET i == ScanFrom(pg.rows, target_name, 1)
    IN  IF i = 0
        THEN [target_row |-> 0, calls |-> <<"scan", "scan">>, data |-> None]
        ELSE LET after == AfterMatch(pg, i)
             IN  [target_row |-> i, calls |-> <<"scan">> \o after.calls,
                  data |-> after.data]

\* _extract_popup_details: [target_row, calls made on the page, returned data]
_extract_popup_details(pg, target_name) ==
    LET i == ScanFrom(pg.rows, target_name, 1)
    IN  IF i = 0
        THEN [target_row |-> 0, calls |-> <<"scan">>, data |-> None]
        ELSE LET after == AfterMatch(pg, i)
             IN  [target_row |-> i, calls |-> <<"scan">> \o after.calls,
                  data |-> after.data]

----------------------------------------------------------------------------
(* Storage.  A table is the sequence of its rows in rowid order; the       *)
(* accommodation_id of a row is its position.  The schema is not part of   *)
(* the repository: a row carries every column the two writers name, and a  *)
(* column an INSERT does not list starts as 0 / the empty text.  The area  *)
(* columns are written by the same statements and are not modelled.        *)

NewAccommodationRow(acc) ==
    [forest_id |-> acc.forest_id, facility_name |-> acc.facility_name,
     facility_type |-> acc.facility_type,
     standard_capacity |-> acc.standard_capacity, max_capacity |-> acc.max_capacity,
     checkin_time |-> acc.checkin_time, checkout_time |-> acc.checkout_time,
     weekday_offseason |-> acc.weekday_offseason,
     weekend_offseason |-> acc.weekend_offseason,
     weekday_peak |-> acc.weekday_peak, weekend_peak |-> acc.weekend_peak,
     amenities |-> acc.amenities, usage_notes |-> acc.usage_notes,
     price_off_weekday |-> 0, price_off_weekend |-> 0,
     price_peak_weekday |-> 0, price_peak_weekend |-> 0,
     usage_info |-> <<>>]

\* UPDATE accommodations SET ... WHERE forest_id = ? AND facility_name = ?
UpdatedAccommodationRow(row, acc) ==
    [row EXCEPT !.facility_type = acc.facility_type,
                !.standard_capacity = acc.standard_capacity,
                !.max_capacity = acc.max_capacity,
                !.checkin_time = acc.checkin_time,
                !.checkout_time = acc.checkout_time,
                !.weekday_offseason = acc.weekday_offseason,
                !.weekend_offseason = acc.weekend_offseason,
                !.weekday_peak = acc.weekday_peak,
                !.weekend_peak = acc.weekend_peak,
                !.amenities = acc.amenities,
                !.usage_notes = acc.usage_notes]

SameAccommodation(row, acc) ==
    row.forest_id = acc.forest_id /\ row.facility_name = acc.facility_name

\* a mutation: INSERT without the existence check
UpsertAccommodation_AlwaysInserts(table, acc) ==
    Append(table, NewAccommodationRow(acc))

\* the body of the loop of _save_accommodations_to_db: SELECT, then UPDATE or INSERT
UpsertAccommodation(table, acc) ==
    IF \E i \in 1..Len(table) : SameAccommodation(table[i], acc)
    THEN [i \in 1..Len(table) |->
             IF SameAccommodation(table[i], acc)
             THEN UpdatedAccommodationRow(table[i], acc) ELSE table[i]]
    ELSE Append(table, NewAccommodationRow(acc))

\* _save_accommodations_to_db up to its commit
RECURSIVE SaveAccommodations(_, _)
SaveAccommodations(table, accs) ==
    IF accs = <<>> THEN table
    ELSE SaveAccommodations(UpsertAccommodation(table, Head(accs)), Tail(accs))

SamePolicy(row, forest_id, policy) ==
    /\ row.forest_id = forest_id
    /\ row.policy_category = policy.policy_category
    /\ row.target_group = policy.target_group

NewPolicyRow(forest_id, policy) ==
    [forest_id |-> forest_id, policy_category |-> policy.policy_category,
     target_group |-> policy.target_group, discount_type |-> policy.discount_type,
     discount_rate |-> policy.discount_rate]

\* a mutation: the duplicate check looks at the target group alone
UpsertPolicy_KeyIsGroupOnly(table, forest_id, policy) ==
    IF \E i \in 1..Len(table) : table[i].target_group = policy.target_group
    THEN [i \in 1..Len(table) |->
             IF table[i].target_group = policy.target_group
             THEN [table[i] EXCEPT !.discount_type = policy.discount_type,
                                   !.discount_rate = policy.discount_rate]
             ELSE table[i]]
    ELSE Append(table, NewPolicyRow(forest_id, policy))

\* the body of the loop of save_discount_policies and of
\* save_discount_policies_to_integrated_db (the same statements)
UpsertPolicy(table, forest_id, policy) ==
    IF \E i \in 1..Len(table) : SamePolicy(table[i], forest_id, policy)
    THEN [i \in 1..Len(table) |->
             IF SamePolicy(table[i], forest_id, policy)
             THEN [table[i] EXCEPT !.discount_type = policy.discount_type,
                                   !.discount_rate = policy.discount_rate]
             ELSE table[i]]
    ELSE Append(table, NewPolicyRow(forest_id, policy))

RECURSIVE SavePolicies(_, _, _)
SavePolicies(table, forest_id, policies) ==
    IF policies = <<>> THEN table
    ELSE SavePolicies(UpsertPolicy(table, forest_id, Head(policies)),
                      forest_id, Tail(policies))

\* the keys of the update the detailed crawl may write, in statement order
PriceColumns ==
    {"price_off_weekday", "price_off_weekend", "price_peak_weekday", "price_peak_weekend"}
TextColumns == {"amenities", "usage_info", "checkin_time"}

\* update_fields of _update_accommodation_full_details: a price when
\* .get() is not None, a text when .get() is truthy
UpdateFields(data) ==
    {k \in PriceColumns : Has(data, k)}
    \cup {k \in TextColumns : Has(data, k) /\ data[k] # <<>>}

\* the row after UPDATE accommodations SET <update_fields> WHERE accommodation_id = ?
DetailUpdatedRow(row, data) ==
    LET f == UpdateFields(data)
        v(k, old) == IF k \in f THEN data[k] ELSE old
    IN  [row EXCEPT !.price_off_weekday = v("price_off_weekday", @),
                    !.price_off_weekend = v("price_off_weekend", @),
                    !.price_peak_weekday = v("price_peak_weekday", @),
                    !.price_peak_weekend = v("price_peak_weekend", @),
                    !.amenities = v("amenities", @),
                    !.usage_info = v("usage_info", @),
                    !.checkin_time = v("checkin_time", @)]

\* _update_accommodation_full_details without a DB error:
\* [updated: its return value, table: the table after it]
_update_accommodation_full_details(table, accommodation_id, data) ==
    IF UpdateFields(data) # {}
    THEN [updated |-> TRUE,
          table |-> [i \in 1..Len(table) |->
                        IF i = accommodation_id
                        THEN DetailUpdatedRow(table[i], data) ELSE table[i]]]
    ELSE [updated |-> FALSE, table |-> table]

----------------------------------------------------------------------------
(* Basic crawl: the row loop of crawl_basic_accommodation_data *)

People == "myeong"                   \* '명'

\* int(text) inside try/except: the number, or 0 when int() raises
IntOrZero(text) == IF IsDigit(text) THEN IntOf(text) ELSE 0

\* accommodation_data of one summary row with six readable cells
AccommodationData(forest_id, row) ==
    LET capacity_text == row.cells[3]
        price_text == row.cells[6]
        capacity == IF capacity_text # <<>>
                    THEN IntOrZero(Strip(Remove(capacity_text, People))) ELSE 0
        weekday_price ==
            IF price_text # <<>> /\ In(<<Won>>, price_text)
            THEN IntOrZero(Strip(Remove(Split(price_text, Won)[1], ",")))
            ELSE 0
    IN  [forest_id |-> forest_id,
         facility_name |-> Strip(row.cells[1]),
         facility_type |-> Strip(row.cells[2]),
         standard_capacity |-> capacity,
         max_capacity |-> capacity,
         checkin_time |-> Strip(row.cells[5]),
         checkout_time |-> <<"11:00">>,
         weekday_offseason |-> weekday_price,
         weekend_offseason |-> IF weekday_price > 0 THEN (weekday_price * 13) \div 10 ELSE 0,
         weekday_peak |-> IF weekday_price > 0 THEN (weekday_price * 15) \div 10 ELSE 0,
         weekend_peak |-> IF weekday_price > 0 THEN (weekday_price * 18) \div 10 ELSE 0,
         amenities |-> <<>>,
         usage_notes |-> <<>>]

\* for row in rows: a row with six cells is collected, any other is skipped
RECURSIVE CollectRows(_, _)
CollectRows(forest_id, rows) ==
    IF rows = <<>> THEN <<>>
    ELSE (IF Head(rows).readable /\ Len(Head(rows).cells) >= 6
          THEN <<AccommodationData(forest_id, Head(rows))>> ELSE <<>>)
         \o CollectRows(forest_id, Tail(rows))

----------------------------------------------------------------------------
(* The discount policies both applications save: crawl_discount_policies   *)
(* and get_default_discount_policies_for_integrated build the same list.   *)

Policy(category, group, type, rate) ==
    [policy_category |-> category, target_group |-> group,
     discount_type |-> type, discount_rate |-> rate]

DefaultPolicies ==
    << Policy("room fee reduction", "disabled grade 1-3", "percentage", 50),
       Policy("room fee reduction", "disabled grade 4-6", "percentage", 30),
       Policy("room fee reduction", "local resident", "percentage", 30),
       Policy("room fee reduction", "multi-child family", "percentage", 30),
       Policy("room fee reduction", "veteran grade 1-3", "percentage", 50),
       Policy("room fee reduction", "veteran grade 4-7", "percentage", 30),
       Policy("room fee reduction", "righteous person", "percentage", 10),
       Policy("entrance fee exemption", "child of 12 or under", "exemption", 100),
       Policy("entrance fee exemption", "senior of 65 or over", "exemption", 100),
       Policy("entrance fee exemption", "disabled", "exemption", 100),
       Policy("entrance fee exemption", "national merit", "exemption", 100),
       Policy("entrance fee exemption", "5.18 democracy merit", "exemption", 100),
       Policy("entrance fee exemption", "agent orange patient", "exemption", 100),
       Policy("entrance fee exemption", "special mission merit", "exemption", 100),
       Policy("parking fee exemption", "disabled", "exemption", 100),
       Policy("parking fee exemption", "national merit", "exemption", 100) >>

----------------------------------------------------------------------------
(* Inputs of the matcher specification *)

Alphabet == {"a", "b", " ", ".", "\n"}

RECURSIVE TextsUpTo(_)
TextsUpTo(n) ==
    IF n = 0 THEN {<<>>}
    ELSE LET shorter == TextsUpTo(n - 1)
         IN  shorter \cup {Append(s, c) : s \in {t \in shorter : Len(t) = n - 1}, c \in Alphabet}

\* '101호. 연산홍'
Name101 == <<"1", "0", "1", "ho", ".", " ", "yeon", "san", "hong">>
\* '101호.연산홍'
Name101Tight == <<"1", "0", "1", "ho", ".", "yeon", "san", "hong">>
\* '102호. 백일홍'
Name102 == <<"1", "0", "2", "ho", ".", " ", "baek", "il", "hong">>

\* '삼나무동': the type cell of a summary row
TypeCell == <<"sam", "na", "mu", "dong">>

\* no request is being served and none has been
Idle ==
    /\ pc = "idle"
    /\ request = [app |-> "", route |-> "",
                  body |-> [json |-> "", forest_id |-> "", accommodation_id |-> 0]]
    /\ target = <<>>
    /\ page = None
    /\ log = <<>>
    /\ target_row = 0
    /\ detailed_data = None
    /\ scraped = <<>>
    /\ result = None
    /\ response = None
    /\ browser = "none"

\* a new client: an empty session, no request made
AuthIdle ==
    /\ session = EmptyDict
    /\ visits = <<>>

\* no function has been called on its own
CallIdle ==
    /\ call = None
    /\ returned = <<>>

\* no embedding engine has been constructed, nothing is cached
EmbedIdle ==
    /\ cache_file = None
    /\ engines = EmptyDict

\* integrated_app as imported with the basic engine only, no engine built
EngineIdle ==
    /\ imports = [USE_VECTOR_SEARCH |-> FALSE, BasicRecommendationEngine |-> TRUE]
    /\ recommendation_engine = None
    /\ vector_search_engine = None

\* no request is saving
ConnectionsIdle ==
    connections = [c \in {1, 2} |-> [pc |-> "idle", batch |-> None, found |-> FALSE, tx |-> None]]

\* the components that take no part in a crawl are at rest
XIdle == AuthIdle /\ CallIdle /\ EmbedIdle /\ EngineIdle /\ ConnectionsIdle

MatcherIdle ==
    /\ target_facility_name = <<>>
    /\ facility_name = <<>>
    /\ accepted = FALSE
    /\ mpc = "input"

MatcherInit ==
    /\ target_facility_name \in TextsUpTo(MaxTargetLen) \cup {Name101}
    /\ facility_name \in TextsUpTo(MaxCellLen) \cup {Name101Tight, Name102}
    /\ accepted = FALSE
    /\ mpc = "input"
    /\ accommodations = <<>>
    /\ crawled_discount_policies = <<>>
    /\ Idle
    /\ XIdle

\* one iteration of the row loop on a row with two readable cells
CompareRow ==
    /\ mpc = "input"
    /\ accepted' = RowAccepted([cells |-> <<TypeCell, facility_name>>,
                                readable |-> TRUE, link |-> TRUE],
                               target_facility_name)
    /\ mpc' = "compared"
    /\ UNCHANGED <<target_facility_name, facility_name, dbvars, cvars, xvars>>

MatcherNext == CompareRow

SpecMatch == MatcherInit /\ [][MatcherNext]_vars

----------------------------------------------------------------------------
(* Requests.  A request is [app, route, body]: app "dashboard" is          *)
(* admin_dashboard/app.py, app "integrated" is integrated_app.py; body is  *)
(* [json, forest_id, accommodation_id] with json "invalid" (get_json()     *)
(* raises), "not_object" (a JSON value without .get) or "object";          *)
(* forest_id "" and accommodation_id 0 stand for an absent or falsy field. *)

Json(code, body) == Some([kind |-> "json", code |-> code, body |-> body])
\* the exception left the handler: Flask answers with its own error page
Unhandled == Some([kind |-> "unhandled", code |-> 500, body |-> EmptyDict])

ResetCrawl ==
    /\ target' = <<>>
    /\ page' = None
    /\ log' = <<>>
    /\ target_row' = 0
    /\ detailed_data' = None
    /\ scraped' = <<>>
    /\ result' = None
    /\ browser' = "none"

\* the inner except of api_crawl_discounts
DiscountSaveFailedResponse ==
    Json(500, [status |-> "error", message |-> "database save failed"])

\* the handler up to the call of the crawl function:
\* [pc: where the request goes on, response: the answer when it ends here]
Dispatch(req) ==
    LET b == req.body
        bad == b.json # "object"
        noForest == b.forest_id = ""
        noIds == b.forest_id = "" \/ b.accommodation_id = 0
        go(p) == [pc |-> p, response |-> None]
        end(r) == [pc |-> "idle", response |-> r]
    IN  IF req.app = "dashboard"
        THEN IF bad THEN end(Json(500, [error |-> "exception"]))
             ELSE IF req.route = "basic"
             THEN IF noForest THEN end(Json(400, [error |-> "forest_id required"]))
                  ELSE go("launch")
             ELSE IF req.route = "detailed"
             THEN IF noIds
                  THEN end(Json(400, [error |-> "forest_id and accommodation_id required"]))
                  ELSE go("lookup")
             ELSE IF noForest THEN end(Json(400, [error |-> "forest_id required"]))
                  ELSE go("persist")
        ELSE IF req.route = "basic"
             THEN IF bad THEN end(Unhandled)
                  ELSE end(Json(200, [status |-> "success",
                                      message |-> "collected 0 accommodations"]))
             ELSE IF req.route = "detailed"
             THEN IF bad
                  THEN end(Json(500, [success |-> FALSE, message |-> "crawl module error"]))
                  ELSE IF noIds
                  THEN end(Json(400, [success |-> FALSE,
                                      message |-> "forest_id and accommodation_id required"]))
                  ELSE go("lookup")
             ELSE IF bad
                  THEN end(Json(500, [status |-> "error", message |-> "discount crawl error"]))
                  ELSE IF noForest
                  THEN end(Json(400, [status |-> "error", message |-> "forest id required"]))
                  ELSE go("persist")

\* a request arrives and its handler runs up to the crawl
StartRequest(starts) ==
    /\ pc = "idle"
    /\ \E req \in starts :
          /\ request' = req
          /\ pc' = Dispatch(req).pc
          /\ response' = Dispatch(req).response
    /\ ResetCrawl
    /\ UNCHANGED <<xvars, mvars, dbvars>>

\* what the except clause of the crawl function returns
CrawlErrorResult(route) ==
    IF route = "basic"
    THEN [success |-> FALSE, message |-> "crawl error: exception", data |-> <<>>]
    ELSE [error |-> "detail crawl error: exception"]

\* SELECT facility_name, facility_type ... WHERE accommodation_id = ? AND forest_id = ?
Lookup ==
    /\ pc = "lookup"
    /\ LET id == request.body.accommodation_id
       IN  IF id \in 1..Len(accommodations)
              /\ accommodations[id].forest_id = request.body.forest_id
           THEN /\ target' = accommodations[id].facility_name
                /\ pc' = "launch"
                /\ result' = None
           ELSE /\ target' = <<>>
                /\ pc' = "respond"
                /\ result' = Some([error |-> "accommodation id not found"])
    /\ log' = Append(log, "select")
    /\ UNCHANGED <<xvars, mvars, browser, dbvars, request, page, target_row, detailed_data,
                   scraped, response>>

\* p.chromium.launch() and browser.new_page()
Launch ==
    /\ pc = "launch"
    /\ log' = Append(log, "launch")
    /\ pc' = "goto"
    /\ browser' = "open"
    /\ UNCHANGED <<xvars, mvars, dbvars, request, target, page, target_row,
                   detailed_data, scraped, result, response>>

\* page.goto(url, timeout=30000): the site answers with one of its pages
Goto(pages) ==
    /\ pc = "goto"
    /\ \E pg \in pages : page' = Some(pg)
    /\ log' = Append(log, "goto")
    /\ pc' = "wait"
    /\ UNCHANGED <<xvars, mvars, browser, dbvars, request, target, target_row, detailed_data,
                   scraped, result, response>>

\* page.wait_for_timeout(5000)
Wait ==
    /\ pc = "wait"
    /\ log' = Append(log, "wait")
    /\ pc' = IF request.route = "basic" THEN "collect" ELSE "extract"
    /\ UNCHANGED <<xvars, mvars, browser, dbvars, request, target, page, target_row,
                   detailed_data, scraped, result, response>>

\* a mutation: the result is written while the browser is still open
Extract_PersistsBeforeClose ==
    /\ pc = "extract"
    /\ LET r == _extract_popup_details(page[1], target)
       IN  /\ target_row' = r.target_row
           /\ detailed_data' = r.data
           /\ log' = log \o r.calls
    /\ pc' = "persist"
    /\ UNCHANGED <<xvars, mvars, browser, dbvars, request, target, page, scraped, result, response>>

\* detailed_data = await self._extract_popup_details(page, facility_name)
Extract ==
    /\ pc = "extract"
    /\ LET r == _extract_popup_details(page[1], target)
       IN  /\ target_row' = r.target_row
           /\ detailed_data' = r.data
           /\ log' = log \o r.calls
    /\ pc' = "close"
    /\ UNCHANGED <<xvars, mvars, browser, dbvars, request, target, page, scraped, result, response>>

\* query_selector_all raises inside _extract_popup_details, whose except
\* clause returns None
ExtractRaises ==
    /\ pc = "extract"
    /\ target_row' = 0
    /\ detailed_data' = None
    /\ log' = log \o <<"scan", "raised">>
    /\ pc' = "close"
    /\ UNCHANGED <<xvars, mvars, browser, dbvars, request, target, page, scraped, result, response>>

\* the row loop of crawl_basic_accommodation_data
Collect ==
    /\ pc = "collect"
    /\ scraped' = CollectRows(request.body.forest_id, page[1].rows)
    /\ log' = Append(log, "scan")
    /\ pc' = "close"
    /\ UNCHANGED <<xvars, mvars, browser, dbvars, request, target, page, target_row,
                   detailed_data, result, response>>

\* await browser.close()
Close ==
    /\ pc = "close"
    /\ log' = Append(log, "close")
    /\ pc' = "persist"
    /\ browser' = "closed"
    /\ UNCHANGED <<xvars, mvars, dbvars, request, target, page, target_row,
                   detailed_data, scraped, result, response>>

\* a mutation: a navigation that raises is attempted again
Raise_RetriesNavigation ==
    /\ pc \in {"lookup", "launch", "goto", "wait", "collect", "close"}
    /\ log' = Append(log, IF pc = "lookup" THEN "select"
                          ELSE IF pc = "collect" THEN "scan" ELSE pc)
    /\ IF pc = "goto"
       THEN result' = result /\ pc' = "goto"
       ELSE result' = Some(CrawlErrorResult(request.route)) /\ pc' = "respond"
    /\ browser' = IF browser = "open" /\ pc # "goto" THEN "stopped" ELSE browser
    /\ UNCHANGED <<xvars, mvars, dbvars, request, target, page, target_row,
                   detailed_data, scraped, response>>

\* a mutation: the exception leaves the browser running
Raise_LeavesBrowserOpen ==
    /\ pc \in {"lookup", "launch", "goto", "wait", "collect", "close"}
    /\ log' = Append(log, IF pc = "lookup" THEN "select"
                          ELSE IF pc = "collect" THEN "scan" ELSE pc)
    /\ result' = Some(CrawlErrorResult(request.route))
    /\ pc' = "respond"
    /\ UNCHANGED <<xvars, mvars, browser, dbvars, request, target, page, target_row,
                   detailed_data, scraped, response>>

\* an awaited call of the crawl function raises (a navigation timeout, a
\* browser or driver error, a database error in the lookup): the except
\* clause of the crawl function turns it into its error result.  The
\* exception leaves the `async with async_playwright()` block on its way,
\* which stops the driver and with it a browser that is still open.
Raise ==
    /\ pc \in {"lookup", "launch", "goto", "wait", "collect", "close"}
    /\ log' = Append(log, IF pc = "lookup" THEN "select"
                          ELSE IF pc = "collect" THEN "scan" ELSE pc)
    /\ result' = Some(CrawlErrorResult(request.route))
    /\ pc' = "respond"
    /\ browser' = IF browser = "open" THEN "stopped" ELSE browser
    /\ UNCHANGED <<xvars, mvars, dbvars, request, target, page, target_row,
                   detailed_data, scraped, response>>



\* the body of the result the detailed crawl returns once it has extracted
DetailedResult(updated, name, data) ==
    IF updated
    THEN [status |-> "success", message |-> "details collected and saved",
          facility_name |-> name, detailed_data |-> data]
    ELSE [status |-> "warning", message |-> "updating the details failed"]

NotFoundResult ==
    [status |-> "warning", message |-> "details not found in the popup"]

\* if detailed_data: updated = self._update_accommodation_full_details(...)
PersistDetailed ==
    /\ pc = "persist"
    /\ request.route = "detailed"
    /\ IF detailed_data # None
       THEN LET r == _update_accommodation_full_details(
                         accommodations, request.body.accommodation_id,
                         detailed_data[1])
            IN  /\ accommodations' = r.table
                /\ log' = IF r.updated THEN Append(log, "update") ELSE log
                /\ result' = Some(DetailedResult(r.updated, target, detailed_data[1]))
       ELSE /\ accommodations' = accommodations
            /\ log' = log
            /\ result' = Some(NotFoundResult)
    /\ pc' = "respond"
    /\ UNCHANGED <<xvars, mvars, browser, crawled_discount_policies, request, target, page,
                   target_row, detailed_data, scraped, response>>

\* if accommodations: self._save_accommodations_to_db(accommodations)
PersistBasic ==
    /\ pc = "persist"
    /\ request.route = "basic"
    /\ IF scraped # <<>>
       THEN /\ accommodations' = SaveAccommodations(accommodations, scraped)
            /\ log' = Append(log, "save")
       ELSE /\ accommodations' = accommodations
            /\ log' = log
    /\ result' = Some([success |-> TRUE, message |-> "accommodations collected",
                       data |-> scraped])
    /\ pc' = "respond"
    /\ UNCHANGED <<xvars, mvars, browser, crawled_discount_policies, request, target, page,
                   target_row, detailed_data, scraped, response>>

DiscountSuccess ==
    [status |-> "success", message |-> "policies collected",
     policies_collected |-> Len(DefaultPolicies)]

\* save_discount_policies (dashboard, inside crawl_discount_policies) and
\* save_discount_policies_to_integrated_db (integrated, inside the handler)
PersistDiscounts ==
    /\ pc = "persist"
    /\ request.route = "discounts"
    /\ crawled_discount_policies' =
           SavePolicies(crawled_discount_policies, request.body.forest_id,
                        DefaultPolicies)
    /\ log' = Append(log, "save")
    /\ IF request.app = "dashboard"
       THEN /\ result' = Some(DiscountSuccess)
            /\ response' = response
            /\ pc' = "respond"
       ELSE /\ result' = result
            /\ response' = Json(200, DiscountSuccess)
            /\ pc' = "idle"
    /\ UNCHANGED <<xvars, mvars, browser, accommodations, request, target, page, target_row,
                   detailed_data, scraped>>

\* what the crawl returns after its save function has caught a database
\* exception: the except clause of _save_accommodations_to_db and of
\* save_discount_policies only prints
SwallowedSaveResult(route, collected) ==
    IF route = "basic"
    THEN [success |-> TRUE, message |-> "accommodations collected", data |-> collected]
    ELSE DiscountSuccess

\* the database raises while the persistence function runs (connect, a
\* statement, or the commit): nothing is committed
PersistRaises ==
    /\ pc = "persist"
    /\ \/ request.route = "detailed" /\ detailed_data # None
       \/ request.route = "basic" /\ scraped # <<>>
       \/ request.route = "discounts"
    /\ log' = Append(log, "db_error")
    /\ IF request.route = "detailed"
       THEN \* _update_accommodation_full_details returns False
            /\ result' = Some(DetailedResult(FALSE, target, detailed_data[1]))
            /\ response' = response
            /\ pc' = "respond"
       ELSE IF request.app = "dashboard"
       THEN /\ result' = Some(SwallowedSaveResult(request.route, scraped))
            /\ response' = response
            /\ pc' = "respond"
       ELSE \* save_discount_policies_to_integrated_db re-raises
            /\ result' = result
            /\ response' = DiscountSaveFailedResponse
            /\ pc' = "idle"
    /\ UNCHANGED <<xvars, mvars, browser, dbvars, request, target, page, target_row,
                   detailed_data, scraped>>

\* d.get(k, default)
Get(d, k, default) == IF k \in DOMAIN d THEN d[k] ELSE default

\* the tail of the handler: the answer built from the crawl's result
RouteResponse(req, res) ==
    IF req.route = "detailed"
    THEN IF req.app = "dashboard"
         THEN IF "error" \in DOMAIN res THEN Json(500, res) ELSE Json(200, res)
         ELSE IF "error" \in DOMAIN res
              THEN Json(500, [success |-> FALSE,
                              message |-> Get(res, "message", "crawl error")])
              ELSE Json(200, [success |-> TRUE,
                              message |-> Get(res, "message", "details collected"),
                              detailed_data |-> Get(res, "detailed_data", EmptyDict),
                              forest_id |-> req.body.forest_id,
                              accommodation_id |-> req.body.accommodation_id])
    ELSE Json(200, res)

Respond ==
    /\ pc = "respond"
    /\ response' = RouteResponse(request, result[1])
    /\ pc' = "idle"
    /\ UNCHANGED <<xvars, mvars, browser, dbvars, request, target, page, log, target_row,
                   detailed_data, scraped, result>>

----------------------------------------------------------------------------
(* What the site serves *)

Row6(c1, c2, price, link) ==
    [cells |-> <<c1, c2, <<"4", People>>, <<"3", "5", "m2">>, <<"15:00">>, price>>,
     readable |-> TRUE, link |-> link]

\* '75,000원'
Price75 == <<"7", "5", ",", "0", "0", "0", Won>>
\* '75,000원 / 134,000원'
Price75or134 == Price75 \o <<" ", "/", " ", "1", "3", "4", ",", "0", "0", "0", Won>>

\* a header or colspan row: a single cell
ShortRow == [cells |-> <<TypeCell>>, readable |-> TRUE, link |-> FALSE]
\* a row whose cells cannot be read (inner_text raises)
BrokenRow == [cells |-> <<TypeCell, Name101>>, readable |-> FALSE, link |-> TRUE]
\* a two-cell row naming the facility
TwoCellRow == [cells |-> <<TypeCell, Name101Tight>>, readable |-> TRUE, link |-> FALSE]

BasicInfoTable ==
    << [th |-> Some(<<RoomArea>>),
        td |-> Some(<<"gijuninwon", " ", ":", " ", "4", " ",
                      MaxPeople, " ", ":", " ", "6">>)],
       [th |-> Some(<<Amenities>>), td |-> Some(<<TV, ",", " ", "fridge">>)],
       [th |-> Some(<<InOutTime>>),
        td |-> Some(<<"15:00", " ", "~", " ", "12:00">>)] >>

PriceTable ==
    << [th |-> Some(<<OffSeason>>),
        td |-> Some(<<WeekdayFee, " ", "8", "0", ",", "0", "0", "0", Won>>)],
       [th |-> None,
        td |-> Some(<<WeekendFee, " ", "9", "0", ",", "0", "0", "0", Won>>)],
       [th |-> Some(<<PeakSeason>>),
        td |-> Some(<<WeekdayFee, " ", "9", "5", ",", "0", "0", "0", Won>>)],
       [th |-> None,
        td |-> Some(<<WeekendFee, " ", "9", "9", ",", "0", "0", "0", Won>>)] >>

UsageParagraphsText ==
    << <<Room1, ",", " ", LivingRoom>>, <<Bedding, ",", " ", TV>>,
       <<BookingCaution>>, <<"no", " ", "pets">> >>

View(tables, usage_tab) ==
    [tables |-> tables, usage_tab |-> usage_tab,
     paragraphs |-> IF usage_tab THEN UsageParagraphsText ELSE <<>>]

FullView == View(<<BasicInfoTable, PriceTable>>, TRUE)
NoPriceView == View(<<BasicInfoTable>>, TRUE)
NoBasicView == View(<<PriceTable>>, FALSE)
EmptyView == View(<<>>, FALSE)

Forests == {"F1", "F2"}

Bodies(jsons, forests, ids) ==
    [json : jsons, forest_id : forests, accommodation_id : ids]

----------------------------------------------------------------------------
(* Spec: both applications, their three crawl routes each *)

\* the pages of the site as the crawls of Spec see them
SitePages ==
    { [rows |-> <<Row6(TypeCell, Name101, Price75, TRUE)>>, view |-> FullView],
      [rows |-> <<Row6(TypeCell, Name101, Price75, TRUE)>>, view |-> EmptyView],
      [rows |-> <<ShortRow, Row6(Name101, TypeCell, Price75or134, FALSE)>>,
       view |-> EmptyView],
      [rows |-> <<>>, view |-> EmptyView] }

AllStarts ==
    [app : {"dashboard", "integrated"},
     route : {"basic", "detailed", "discounts"},
     body : Bodies({"object"}, {"F1", ""}, 0..2)
            \cup Bodies({"invalid", "not_object"}, {""}, {0})]

Init ==
    /\ MatcherIdle
    /\ accommodations = <<>>
    /\ crawled_discount_policies = <<>>
    /\ Idle
    /\ XIdle

Next ==
    \/ StartRequest(AllStarts)
    \/ Lookup
    \/ Launch
    \/ Goto(SitePages)
    \/ Wait
    \/ Extract
    \/ ExtractRaises
    \/ Collect
    \/ Close
    \/ Raise
    \/ PersistDetailed
    \/ PersistBasic
    \/ PersistDiscounts
    \/ PersistRaises
    \/ Respond

Spec == Init /\ [][Next]_vars

----------------------------------------------------------------------------
(* C1 *)

\* index of the first / last character that str.strip() keeps (0 when none)
C1_First(s) ==
    IF \A i \in 1..Len(s) : s[i] \in Whitespace THEN 0
    ELSE CHOOSE i \in 1..Len(s) :
            s[i] \notin Whitespace /\ \A j \in 1..(i - 1) : s[j] \in Whitespace

C1_Last(s) ==
    IF \A i \in 1..Len(s) : s[i] \in Whitespace THEN 0
    ELSE CHOOSE i \in 1..Len(s) :
            s[i] \notin Whitespace /\ \A j \in (i + 1)..Len(s) : s[j] \in Whitespace

\* norm: the text without its surrounding whitespace and without any ' ' or '.'
RECURSIVE C1_Keep(_, _, _)
C1_Keep(s, i, hi) ==
    IF i = 0 \/ i > hi THEN <<>>
    ELSE (IF s[i] \in {" ", "."} THEN <<>> ELSE <<s[i]>>) \o C1_Keep(s, i + 1, hi)

C1_norm(s) == C1_Keep(s, C1_First(s), C1_Last(s))

\* a is a contiguous part of b
C1_Substring(a, b) ==
    \E p \in 0..(Len(b) - Len(a)) : \A k \in 1..Len(a) : b[p + k] = a[k]

\* C1: a row with two readable cells is accepted exactly when norm(T) is a
\* substring of norm(C) or norm(C) is a substring of norm(T); '101호. 연산홍'
\* matches '101호.연산홍' and does not match '102호. 백일홍'.
C1_MatchIffContainment ==
    mpc = "compared" =>
        /\ accepted <=>
              \/ C1_Substring(C1_norm(target_facility_name), C1_norm(facility_name))
              \/ C1_Substring(C1_norm(facility_name), C1_norm(target_facility_name))
        /\ (target_facility_name = Name101 /\ facility_name = Name101Tight) => accepted
        /\ (target_facility_name = Name101 /\ facility_name = Name102) => ~accepted

\* the punctuation-insensitive example of the claim has been compared and accepted
C1_Witness ==
    /\ mpc = "compared"
    /\ target_facility_name = Name101
    /\ facility_name = Name101Tight
    /\ accepted


----------------------------------------------------------------------------
(* SpecSave: the saving routes of both applications over two forests *)

\* summary pages whose rows repeat a name, inside a page and across pages
SavePages ==
    { [rows |-> <<Row6(TypeCell, Name101, Price75, TRUE),
                  Row6(TypeCell, Name102, Price75or134, TRUE)>>, view |-> EmptyView],
      [rows |-> <<Row6(Name101, TypeCell, Price75, FALSE)>>, view |-> EmptyView],
      [rows |-> <<ShortRow, Row6(Name101, TypeCell, Price75or134, FALSE),
                  Row6(TypeCell, Name101, Price75, FALSE)>>, view |-> EmptyView] }

SaveStarts ==
    [app : {"dashboard", "integrated"},
     route : {"basic", "discounts"},
     body : Bodies({"object"}, Forests, {0})]

SaveNext ==
    \/ StartRequest(SaveStarts)
    \/ Launch
    \/ Goto(SavePages)
    \/ Wait
    \/ Collect
    \/ Close
    \/ Raise
    \/ PersistBasic
    \/ PersistDiscounts
    \/ PersistRaises
    \/ Respond

SpecSave == Init /\ [][SaveNext]_vars

----------------------------------------------------------------------------
(* C2 *)

C2_AccommodationRows(forest_id, name) ==
    {i \in DOMAIN accommodations :
        accommodations[i].forest_id = forest_id /\ accommodations[i].facility_name = name}

C2_PolicyRows(forest_id, category, group) ==
    {i \in DOMAIN crawled_discount_policies :
        /\ crawled_discount_policies[i].forest_id = forest_id
        /\ crawled_discount_policies[i].policy_category = category
        /\ crawled_discount_policies[i].target_group = group}

\* the request being served has committed a save
C2_Saved(route) ==
    request.route = route /\ log # <<>> /\ log[Len(log)] = "save"

\* C2: after any sequence of saves, accommodations holds at most one row per
\* (forest_id, facility_name) and crawled_discount_policies at most one row
\* per (forest_id, policy_category, target_group); every key a committed
\* save carried, once or several times, has exactly one row.
C2_KeyStable ==
    /\ \A i \in DOMAIN accommodations :
          C2_AccommodationRows(accommodations[i].forest_id,
                               accommodations[i].facility_name) = {i}
    /\ \A i \in DOMAIN crawled_discount_policies :
          C2_PolicyRows(crawled_discount_policies[i].forest_id,
                        crawled_discount_policies[i].policy_category,
                        crawled_discount_policies[i].target_group) = {i}
    /\ C2_Saved("basic") =>
          \A k \in DOMAIN scraped :
              Cardinality(C2_AccommodationRows(scraped[k].forest_id,
                                               scraped[k].facility_name)) = 1
    /\ C2_Saved("discounts") =>
          \A k \in DOMAIN DefaultPolicies :
              Cardinality(C2_PolicyRows(request.body.forest_id,
                                        DefaultPolicies[k].policy_category,
                                        DefaultPolicies[k].target_group)) = 1

\* a batch carrying one key twice has been saved over a table that already
\* held that key, and the policies of the same forest were saved before
C2_Witness ==
    /\ C2_Saved("basic")
    /\ Len(scraped) = 2
    /\ scraped[1].facility_name = scraped[2].facility_name
    /\ scraped[1].facility_type # scraped[2].facility_type
    /\ Len(accommodations) = 2
    /\ accommodations[1].facility_name = scraped[1].facility_name
    /\ accommodations[1].forest_id = request.body.forest_id
    /\ accommodations[1].facility_type = scraped[2].facility_type
    /\ Len(crawled_discount_policies) = 2 * Len(DefaultPolicies)

----------------------------------------------------------------------------
(* C3 *)

\* C3: a basic re-save leaves every stored field untouched for which the
\* incoming value is empty: the amenities and usage notes an earlier detailed
\* crawl stored stay as they are, since the basic crawl supplies '' for both.
C3_BasicResaveKeepsDetails ==
    [][(pc = "persist" /\ request.route = "basic") =>
          \A i \in DOMAIN accommodations :
              \A k \in DOMAIN scraped :
                  (SameAccommodation(accommodations[i], scraped[k])
                   /\ scraped[k].amenities = <<>>)
                  => accommodations'[i].amenities = accommodations[i].amenities]_vars

----------------------------------------------------------------------------
(* C4 *)

\* C4: the detailed update writes a price column only when the incoming
\* price is not zero: a stored non-zero price is never replaced by 0.
C4_ZeroNeverOverwritesPrice ==
    [][\A i \in DOMAIN accommodations :
          \A k \in PriceColumns :
              accommodations[i][k] # 0 => accommodations'[i][k] # 0]_vars


----------------------------------------------------------------------------
(* SpecScan: detailed crawls of one stored accommodation over every        *)
(* summary table of up to MaxRows rows and every kind of detail view       *)

MaxRows == 3

\* the kinds of row a summary table is made of
ScanRows ==
    { ShortRow, BrokenRow, TwoCellRow,
      Row6(TypeCell, Name101, Price75, TRUE),
      Row6(TypeCell, Name101Tight, Price75, FALSE),
      Row6(TypeCell, Name102, Price75, TRUE) }

RECURSIVE RowsUpTo(_)
RowsUpTo(n) ==
    IF n = 0 THEN {<<>>}
    ELSE LET shorter == RowsUpTo(n - 1)
         IN  shorter \cup {Append(rs, r) : rs \in {t \in shorter : Len(t) = n - 1},
                                           r \in ScanRows}

ScanPages ==
    [rows : RowsUpTo(MaxRows), view : {FullView, NoPriceView, NoBasicView, EmptyView}]

ScanStarts ==
    [app : {"dashboard"}, route : {"detailed"}, body : Bodies({"object"}, {"F1"}, {1})]

\* the table after a basic crawl of forest F1 stored '101호. 연산홍'
ScanInit ==
    /\ MatcherIdle
    /\ accommodations =
           SaveAccommodations(<<>>, CollectRows("F1", <<Row6(Name101, TypeCell, Price75, FALSE)>>))
    /\ crawled_discount_policies = <<>>
    /\ Idle
    /\ XIdle

ScanNext ==
    \/ StartRequest(ScanStarts)
    \/ Lookup
    \/ Launch
    \/ Goto(ScanPages)
    \/ Wait
    \/ Extract
    \/ ExtractRaises
    \/ Close
    \/ Raise
    \/ PersistDetailed
    \/ PersistRaises
    \/ Respond

SpecScan == ScanInit /\ [][ScanNext]_vars


----------------------------------------------------------------------------
(* C5 *)

\* how often a call appears in the log of the request
Count(calls, name) == Cardinality({i \in DOMAIN calls : calls[i] = name})

\* the scan of the served page has run to its end for a detailed crawl
Scanned ==
    /\ request.route = "detailed"
    /\ page # None
    /\ Count(log, "scan") >= 1
    /\ Count(log, "raised") = 0

\* row r names the target: two readable cells whose second contains, or is
\* contained in, the target, both normalised
Names(r, name) ==
    /\ r.readable
    /\ Len(r.cells) >= 2
    /\ \/ C1_Substring(C1_norm(name), C1_norm(r.cells[2]))
       \/ C1_Substring(C1_norm(r.cells[2]), C1_norm(name))

----------------------------------------------------------------------------
(* C6 *)

\* the first row in document order that names the target, 0 when none does
C6_FirstNaming(rows, name) ==
    IF \A i \in DOMAIN rows : ~Names(rows[i], name) THEN 0
    ELSE CHOOSE i \in DOMAIN rows :
            Names(rows[i], name) /\ \A j \in 1..(i - 1) : ~Names(rows[j], name)

\* C6: when several rows name the target, the first in document order is the
\* one selected and the one whose detail link is looked up; a row with fewer
\* than two cells, or one whose cells cannot be read, is passed over and the
\* scan goes on with the next row.
C6_FirstMatchWins ==
    Scanned =>
        /\ target_row = C6_FirstNaming(page[1].rows, target)
        /\ target_row # 0 =>
              /\ page[1].rows[target_row].link <=> Count(log, "click") = 1
              /\ ~page[1].rows[target_row].link <=> Count(log, "row_data") = 1

\* a row that cannot be read comes first, then two rows naming the target:
\* the second row of the table was selected, the third was not
C6_Witness ==
    /\ Scanned
    /\ Len(page[1].rows) = 3
    /\ ~page[1].rows[1].readable
    /\ Names(page[1].rows[2], target)
    /\ Names(page[1].rows[3], target)
    /\ page[1].rows[2].link # page[1].rows[3].link
    /\ target_row = 2

----------------------------------------------------------------------------
(* C7 *)

\* the detail view holds a table whose text contains one of the words
C7_HasTable(view, words) ==
    \E t \in DOMAIN view.tables :
        \E w \in words : C1_Substring(<<w>>, TableText(view.tables[t]))

C7_HasBasicInfoTable(view) == C7_HasTable(view, {BasicInfo, Amenities})
C7_HasPriceTable(view) == C7_HasTable(view, {PriceInfo, OffSeason, PeakSeason})

----------------------------------------------------------------------------
(* C8 *)

\* C8: every request is answered by its handler with a JSON payload; no
\* exception leaves a route handler.
C8_NoExceptionLeavesHandler ==
    response # None => response[1].kind = "json"

----------------------------------------------------------------------------
(* C9 *)

\* C9: when the database raises while the results of a crawl are persisted,
\* the response of that request is an error response with a status of 400
\* or more, never a success payload.
C9_DbErrorIsHttpError ==
    (Count(log, "db_error") >= 1 /\ response # None) => response[1].code >= 400

----------------------------------------------------------------------------
(* C10 *)

\* the crawl function of the request has returned
C10_Returned == request.route \in {"basic", "detailed"} /\ result # None

\* the last awaited call of the crawl raised into its except clause
C10_Raised ==
    /\ C10_Returned
    /\ pc = "respond"
    /\ log[Len(log)] \in {"launch", "goto", "wait"}

\* C10 as stated: every basic or detailed crawl navigates exactly once.
C10_NavigatesExactlyOnce ==
    C10_Returned => Count(log, "goto") = 1

\* C10: a basic or detailed crawl navigates at most once, and exactly once
\* when the browser was launched; a crawl whose accommodation is not stored,
\* or whose browser does not start, never navigates.  When the navigation or
\* a later awaited call raises, the crawl returns a result with a message
\* and no success mark, after that single navigation.
C10_SingleNavigationAttempt ==
    /\ Count(log, "goto") <= 1
    /\ (C10_Returned /\ \E i \in 1..(Len(log) - 1) : log[i] = "launch") =>
          Count(log, "goto") = 1
    /\ (C10_Returned /\ Count(log, "launch") = 0) => Count(log, "goto") = 0
    /\ C10_Raised =>
          IF request.route = "basic"
          THEN /\ result[1].success = FALSE
               /\ result[1].message = "crawl error: exception"
          ELSE /\ DOMAIN result[1] = {"error"}
               /\ result[1].error = "detail crawl error: exception"

\* the navigation of a detailed crawl timed out: one navigation in the log,
\* nothing after it, and the error result
C10_Witness ==
    /\ C10_Raised
    /\ request.route = "detailed"
    /\ log = <<"select", "launch", "goto">>
    /\ result = Some([error |-> "detail crawl error: exception"])


----------------------------------------------------------------------------
(* C11 *)

\* every call b of the log comes after some call a
C11_Before(a, b) ==
    \A j \in DOMAIN log : log[j] = b => \E i \in 1..(j - 1) : log[i] = a

\* the calls that write the crawl result to the database, failed ones included
C11_Writes == {"update", "save", "db_error"}

\* C11 as stated: the write of the crawl result happens before the browser
\* of the request is closed.
C11_PersistBeforeClose ==
    request.route \in {"basic", "detailed"} =>
        \A i, j \in DOMAIN log :
            (log[i] \in C11_Writes /\ log[j] = "close") => i < j

\* C11: a basic or detailed crawl performs its steps in the order navigate,
\* fixed wait, row scan, extraction from the matched row, browser close,
\* persistence: the write of the crawl result happens after browser.close().
C11_CloseBeforePersist ==
    request.route \in {"basic", "detailed"} =>
        /\ C11_Before("launch", "goto")
        /\ C11_Before("goto", "wait")
        /\ C11_Before("wait", "scan")
        /\ \A c \in {"click", "wait_popup", "popup_content", "row_data", "close"} :
              C11_Before("scan", c)
        /\ \A w \in C11_Writes : C11_Before("close", w)
        /\ \A i, j \in DOMAIN log :
              (log[i] \in {"click", "popup_content", "row_data"} /\ log[j] = "close")
              => i < j

\* a detailed crawl has read the detail view, closed the browser and then
\* updated the accommodation
C11_Witness ==
    /\ request.route = "detailed"
    /\ pc = "respond"
    /\ log = <<"select", "launch", "goto", "wait", "scan", "click", "wait_popup",
               "popup_content", "close", "update">>


----------------------------------------------------------------------------
(* C12 *)

\* the crawl of the request has been entered
C12_Crawled == log # <<>>

\* the request is answered, or about to be by the tail of its handler
C12_Answering == pc = "respond" \/ (pc = "idle" /\ response # None)

\* C12 as stated: every crawl request, basic, detailed or discount-policies,
\* launches exactly one browser, and that browser is closed before the
\* response is returned.
C12_ExactlyOneBrowser ==
    (C12_Crawled /\ C12_Answering) =>
        /\ Count(log, "launch") = 1
        /\ browser # "open"

\* C12: a request launches at most one browser and navigates with it at most
\* once; a discount-policies request, and a detailed crawl of an
\* accommodation that is not stored, launch none.  A browser that was
\* launched is closed on every path before the response is returned: by
\* browser.close() after the scan, or by leaving the playwright block when
\* the navigation, the wait, the scan or the close raises.
C12_AtMostOneBrowserClosed ==
    /\ Count(log, "launch") <= 1
    /\ Count(log, "goto") <= 1
    /\ Count(log, "close") <= 1
    /\ browser # "none" => Count(log, "launch") = 1
    /\ request.route = "discounts" => browser = "none" /\ Count(log, "launch") = 0
    /\ (request.route = "detailed" /\ target = <<>> /\ pc # "lookup") => browser = "none"
    /\ C12_Answering => browser # "open"
    /\ pc = "persist" /\ request.route # "discounts" => browser = "closed"
    /\ (C12_Answering /\ \E i \in 1..(Len(log) - 1) : log[i] = "launch") =>
          browser \in {"closed", "stopped"}

\* the navigation of a basic crawl raised: the browser it launched is gone
\* when the error result is turned into the response
C12_Witness ==
    /\ request.route = "basic"
    /\ pc = "respond"
    /\ log = <<"launch", "goto">>
    /\ browser = "stopped"


----------------------------------------------------------------------------
(* integrated_app.py: login, logout and the admin_required decorator.      *)
(* session is the Flask session of one client, a dict; visits records what *)
(* each of its requests led to: [method, path, form, outcome, effects].    *)

\* requests one client makes
MaxVisits == 3

ADMIN_CREDENTIALS == "admin" :> [password |-> "hyurimbot2025", role |-> "admin"]

\* d.get(k): None or the value
DictGet(d, k) == IF k \in DOMAIN d THEN Some(d[k]) ELSE None

\* flash(message, category): appended to session['_flashes']
flash(s, category) ==
    Update(s, "_flashes" :> Append(IF Has(s, "_flashes") THEN s["_flashes"] ELSE <<>>,
                                    category))

\* get_flashed_messages() in a rendered template: session.pop('_flashes')
get_flashed_messages(s) == [k \in DOMAIN s \ {"_flashes"} |-> s[k]]

\* the condition under which admin_required calls the decorated handler
admin_required(s) ==
    ~ (~ Has(s, "user_id") \/ DictGet(s, "role") # Some("admin"))

\* a mutation: any password of a known user logs in
login_AcceptsAnyPassword(s, method, form) ==
    LET username == DictGet(form, "username")
    IN  IF method = "POST" /\ username # None /\ username[1] \in DOMAIN ADMIN_CREDENTIALS
        THEN [session |-> flash(Update(s, ("_permanent" :> TRUE)
                                          @@ ("user_id" :> username[1])
                                          @@ ("role" :> ADMIN_CREDENTIALS[username[1]].role)),
                                "success"),
              outcome |-> "redirect:/admin"]
        ELSE [session |-> get_flashed_messages(IF method = "POST" THEN flash(s, "error") ELSE s),
              outcome |-> "login_form"]

\* a mutation: a failed login attempt clears the session
login_FailureClearsSession(s, method, form) ==
    LET username == DictGet(form, "username")
        password == DictGet(form, "password")
    IN  IF /\ method = "POST"
           /\ username # None
           /\ username[1] \in DOMAIN ADMIN_CREDENTIALS
           /\ Some(ADMIN_CREDENTIALS[username[1]].password) = password
        THEN [session |-> flash(Update(s, ("_permanent" :> TRUE)
                                          @@ ("user_id" :> username[1])
                                          @@ ("role" :> ADMIN_CREDENTIALS[username[1]].role)),
                                "success"),
              outcome |-> "redirect:/admin"]
        ELSE [session |-> IF method = "POST" THEN EmptyDict ELSE get_flashed_messages(s),
              outcome |-> "login_form"]

\* login(): [session: the session afterwards, outcome: the response]
login(s, method, form) ==
    LET username == DictGet(form, "username")
        password == DictGet(form, "password")
    IN  IF /\ method = "POST"
           /\ username # None
           /\ username[1] \in DOMAIN ADMIN_CREDENTIALS
           /\ Some(ADMIN_CREDENTIALS[username[1]].password) = password
        THEN [session |-> flash(Update(s, ("_permanent" :> TRUE)
                                          @@ ("user_id" :> username[1])
                                          @@ ("role" :> ADMIN_CREDENTIALS[username[1]].role)),
                                "success"),
              outcome |-> "redirect:/admin"]
        ELSE \* LOGIN_TEMPLATE shows the flashed messages
             [session |-> get_flashed_messages(IF method = "POST" THEN flash(s, "error") ELSE s),
              outcome |-> "login_form"]

\* the routes decorated with @admin_required
AdminPaths ==
    {"/admin", "/admin/data-collection", "/admin/api/forests",
     "/admin/api/accommodations", "/admin/api/facilities", "/admin/api/discounts",
     "/admin/api/crawl/basic", "/admin/api/crawl/detailed", "/admin/api/crawl/discounts"}

\* what the handler of an admin route may do once it is called
HandlerEffects(path) ==
    IF path = "/admin/api/crawl/basic" THEN {}
    ELSE IF path = "/admin/api/crawl/detailed" THEN {"db_read", "crawl", "db_write"}
    ELSE IF path = "/admin/api/crawl/discounts" THEN {"crawl", "db_write"}
    ELSE {"db_read"}

\* the names and passwords a client may type
Usernames == {"admin", "guest"}
Passwords == {"hyurimbot2025", "hyurimbot2025 ", ""}

\* every form with some of the fields username, password
Forms ==
    {EmptyDict}
    \cup {"username" :> u : u \in Usernames}
    \cup {"password" :> w : w \in Passwords}
    \cup {("username" :> u) @@ ("password" :> w) : u \in Usernames, w \in Passwords}

Visit(method, path, form, outcome, effects) ==
    [method |-> method, path |-> path, form |-> form,
     outcome |-> outcome, effects |-> effects]

\* GET or POST /login
Login ==
    /\ Len(visits) < MaxVisits
    /\ \E method \in {"GET", "POST"} :
       \E form \in (IF method = "POST" THEN Forms ELSE {EmptyDict}) :
          LET r == login(session, method, form)
          IN  /\ session' = r.session
              /\ visits' = Append(visits, Visit(method, "/login", form, r.outcome, {}))
    /\ UNCHANGED beside_auth

\* GET /logout
Logout ==
    /\ Len(visits) < MaxVisits
    /\ session' = flash(EmptyDict, "info")
    /\ visits' = Append(visits, Visit("GET", "/logout", EmptyDict, "redirect:/", {}))
    /\ UNCHANGED beside_auth

\* a request to a route decorated with @admin_required
Admin ==
    /\ Len(visits) < MaxVisits
    /\ \E path \in AdminPaths :
          IF admin_required(session)
          THEN /\ session' = IF path = "/admin"   \* ADMIN_TEMPLATE shows the flashes
                             THEN get_flashed_messages(session) ELSE session
               /\ visits' = Append(visits, Visit("", path, EmptyDict, "handler",
                                                  HandlerEffects(path)))
          ELSE /\ session' = flash(session, "error")
               /\ visits' = Append(visits, Visit("", path, EmptyDict, "redirect:/login", {}))
    /\ UNCHANGED beside_auth

AuthNext ==
    \/ Login
    \/ Logout
    \/ Admin

SpecAuth == Init /\ [][AuthNext]_vars

----------------------------------------------------------------------------
(* C13 *)

\* the request the step served
C13_Last == visits'[Len(visits')]

\* C13: the handler of an admin_required route is called only when the
\* session holds user_id and role = 'admin'; otherwise the answer is a
\* redirect to /login and nothing is read, crawled or written.  A session
\* comes to hold user_id or role only by a POST /login with username 'admin'
\* and exactly the configured password, and it then holds both.
C13_AdminOnly ==
    [][/\ (visits' # visits /\ C13_Last.path \in AdminPaths) =>
            IF Has(session, "user_id") /\ Has(session, "role") /\ session["role"] = "admin"
            THEN C13_Last.outcome = "handler"
            ELSE /\ C13_Last.outcome = "redirect:/login"
                 /\ C13_Last.effects = {}
                 /\ ~ Has(session', "user_id")
       /\ (visits' # visits /\ C13_Last.path \notin AdminPaths) => C13_Last.effects = {}
       /\ (\E k \in {"user_id", "role"} : Has(session', k) /\ ~ Has(session, k)) =>
            /\ C13_Last.path = "/login"
            /\ C13_Last.method = "POST"
            /\ C13_Last.form = ("username" :> "admin") @@ ("password" :> "hyurimbot2025")
            /\ DictGet(session', "user_id") = Some("admin")
            /\ DictGet(session', "role") = Some("admin")
      ]_vars

\* the crawl route was refused, the client logged in, and the route ran
C13_Witness ==
    /\ Len(visits) = 3
    /\ visits[1].path = "/admin/api/crawl/detailed"
    /\ visits[1].outcome = "redirect:/login"
    /\ visits[2].path = "/login"
    /\ visits[2].outcome = "redirect:/admin"
    /\ visits[3].path = "/admin/api/crawl/detailed"
    /\ visits[3].outcome = "handler"
    /\ visits[3].effects = {"db_read", "crawl", "db_write"}
    /\ admin_required(session)


----------------------------------------------------------------------------
(* _parse_price called on its own, and then on str() of what it returned *)

\* longest price text enumerated
MaxPriceLen == 4

PriceAlphabet == {"7", "5", "0", ",", Won, " ", "-"}

RECURSIVE PriceTextsUpTo(_)
PriceTextsUpTo(n) ==
    IF n = 0 THEN {<<>>}
    ELSE LET shorter == PriceTextsUpTo(n - 1)
         IN  shorter \cup {Append(s, c) : s \in {t \in shorter : Len(t) = n - 1},
                                          c \in PriceAlphabet}

\* '75,000원'
Price75000 == <<"7", "5", ",", "0", "0", "0", Won>>

\* str(n) for an int n >= 0
RECURSIVE Str(_)
Str(n) ==
    LET digit == CHOOSE c \in Digits : DigitValue(c) = n % 10
    IN  IF n < 10 THEN <<digit>> ELSE Append(Str(n \div 10), digit)

PriceInit ==
    /\ MatcherIdle
    /\ accommodations = <<>>
    /\ crawled_discount_policies = <<>>
    /\ Idle
    /\ AuthIdle
    /\ EmbedIdle
    /\ EngineIdle
    /\ ConnectionsIdle
    /\ call \in {Some([fn |-> "_parse_price", arg |-> t]) :
                    t \in PriceTextsUpTo(MaxPriceLen) \cup {Price75000}}
    /\ returned = <<>>

\* self._parse_price(price_text)
ParsePrice ==
    /\ call # None
    /\ call[1].fn = "_parse_price"
    /\ returned = <<>>
    /\ returned' = <<_parse_price(call[1].arg)>>
    /\ UNCHANGED <<call, beside_call>>

\* self._parse_price(str(value)) on the value just returned
ParseRendered ==
    /\ call # None
    /\ call[1].fn = "_parse_price"
    /\ Len(returned) = 1
    /\ returned' = Append(returned, _parse_price(Str(returned[1])))
    /\ UNCHANGED <<call, beside_call>>

PriceNext ==
    \/ ParsePrice
    \/ ParseRendered

SpecPrice == PriceInit /\ [][PriceNext]_vars

----------------------------------------------------------------------------
(* C14 *)

\* the text without its ',' and '원'
C14_Cleaned == SelectSeq(call[1].arg, LAMBDA c : c \notin {",", Won})

RECURSIVE C14_Pow10(_)
C14_Pow10(n) == IF n = 0 THEN 1 ELSE 10 * C14_Pow10(n - 1)

RECURSIVE C14_Sum(_, _, _)
\* the decimal value of t[i..j]
C14_Sum(t, i, j) ==
    IF i > j THEN 0 ELSE DigitValue(t[i]) * C14_Pow10(j - i) + C14_Sum(t, i + 1, j)

\* t[i..j] is the first maximal run of digits of t
C14_FirstRun(t, i, j) ==
    /\ \A k \in 1..(i - 1) : t[k] \notin Digits
    /\ \A k \in i..j : t[k] \in Digits
    /\ j = Len(t) \/ t[j + 1] \notin Digits

\* C14: _parse_price returns the integer value of the first run of decimal
\* digits left after every ',' and '원' is deleted, and 0 when no digit is
\* left; '75,000원' gives 75000; parsing str() of a returned value returns
\* that value again.
C14_FirstDigitRunValue ==
    (call # None /\ call[1].fn = "_parse_price" /\ returned # <<>>) =>
        LET t == C14_Cleaned
        IN  /\ returned[1] \in Nat
            /\ (\A k \in 1..Len(t) : t[k] \notin Digits) => returned[1] = 0
            /\ \A i, j \in 1..Len(t) :
                  (i <= j /\ C14_FirstRun(t, i, j)) => returned[1] = C14_Sum(t, i, j)
            /\ call[1].arg = Price75000 => returned[1] = 75000
            /\ Len(returned) = 2 => returned[2] = returned[1]

\* '75,000원' was parsed, and so was '75000'
C14_Witness ==
    /\ call = Some([fn |-> "_parse_price", arg |-> Price75000])
    /\ returned = <<75000, 75000>>


----------------------------------------------------------------------------
(* test_basic_recommendation.py: BasicRecommendationEngine.                 *)
(* A cached accommodation is a record whose capacity_standard is None or    *)
(* Some(n) (a NULL column or an int).  A float is the exact fraction        *)
(* [n, d] in lowest terms; round(x, 3) is an integer number of thousandths. *)

RECURSIVE GCD(_, _)
GCD(a, b) == IF b = 0 THEN a ELSE GCD(b, a % b)

\* the float n / d, for n >= 0 and d > 0
Frac(n, d) == LET g == GCD(n, d) IN [n |-> n \div g, d |-> d \div g]

FracAdd(x, y) == Frac(x.n * y.d + y.n * x.d, x.d * y.d)
FracMul(x, y) == Frac(x.n * y.n, x.d * y.d)
FracLess(x, y) == x.n * y.d < y.n * x.d

\* round(x, 3) in thousandths (a tie goes to the even neighbour)
Round3(x) ==
    LET q == (x.n * 1000) \div x.d
        rem == (x.n * 1000) % x.d
    IN  IF 2 * rem > x.d \/ (2 * rem = x.d /\ q % 2 = 1) THEN q + 1 ELSE q

\* str.lower(), character by character
Lower(s) == [i \in DOMAIN s |-> IF s[i] = "TV" THEN "tv" ELSE s[i]]

\* set(text.split()): the maximal runs of characters that are not whitespace
Words(s) ==
    {SubSeq(s, ij[1], ij[2]) :
        ij \in {ij \in (1..Len(s)) \X (1..Len(s)) :
                   /\ ij[1] <= ij[2]
                   /\ \A k \in ij[1]..ij[2] : s[k] \notin Whitespace
                   /\ ij[1] = 1 \/ s[ij[1] - 1] \in Whitespace
                   /\ ij[2] = Len(s) \/ s[ij[2] + 1] \in Whitespace}}

\* Jaccard similarity of the word sets
calculate_text_similarity(text1, text2) ==
    LET words1 == Words(Lower(text1))
        words2 == Words(Lower(text2))
        union == words1 \cup words2
    IN  IF text1 = <<>> \/ text2 = <<>> \/ union = {} THEN Frac(0, 1)
        ELSE Frac(Cardinality(words1 \cap words2), Cardinality(union))

Max2(a, b) == IF a >= b THEN a ELSE b
Abs(a) == IF a < 0 THEN 0 - a ELSE a

\* a mutation: the difference is taken relative to the target price
calculate_price_similarity_RelativeToTarget(target_price, accommodation_price) ==
    IF target_price = 0 \/ accommodation_price = 0 THEN Frac(1, 2)
    ELSE LET price_diff == Abs(target_price - accommodation_price)
         IN  IF price_diff >= target_price THEN Frac(0, 1)
             ELSE Frac(target_price - price_diff, target_price)

\* max(0, 1 - diff / max) for two positive ints
calculate_price_similarity(target_price, accommodation_price) ==
    IF target_price = 0 \/ accommodation_price = 0 THEN Frac(1, 2)
    ELSE LET price_diff == Abs(target_price - accommodation_price)
             max_price == Max2(target_price, accommodation_price)
         IN  Frac(max_price - price_diff, max_price)

calculate_capacity_similarity(target_capacity, accommodation_capacity) ==
    IF target_capacity = 0 \/ accommodation_capacity = 0 THEN Frac(1, 2)
    ELSE LET capacity_diff == Abs(target_capacity - accommodation_capacity)
             largest == Max2(target_capacity, accommodation_capacity)
         IN  Frac(largest - capacity_diff, largest)

\* truth value of an int-or-None
Truthy(opt) == opt # None /\ opt[1] # 0

\* a mutation: the capacity term grows with the distance
ScoreOf_CapacityDistance(accommodation, query, target_capacity, target_price, location_filter) ==
    LET text_features ==
            (IF accommodation.facility_name # <<>> THEN <<accommodation.facility_name>> ELSE <<>>)
            \o (IF accommodation.amenities # <<>> THEN <<accommodation.amenities>> ELSE <<>>)
            \o (IF accommodation.facility_type # <<>> THEN <<accommodation.facility_type>> ELSE <<>>)
        text_similarity == calculate_text_similarity(query, Join(text_features, <<" ">>))
        hasCapacity == Truthy(target_capacity) /\ Truthy(accommodation.capacity_standard)
        capacity_similarity ==
            calculate_capacity_similarity(target_capacity[1], accommodation.capacity_standard[1])
        hasPrice == Truthy(target_price) /\ accommodation.price_off_weekday # 0
        price_similarity ==
            calculate_price_similarity(target_price[1], accommodation.price_off_weekday)
        location_match ==
            location_filter = None
            \/ In(Lower(location_filter[1]),
                  IF accommodation.sido # <<>> THEN Lower(accommodation.sido)
                  ELSE Lower(accommodation.forest_name))
        s1 == FracMul(text_similarity, Frac(4, 10))
        s2 == IF hasCapacity
              THEN FracAdd(s1, FracMul(Frac(capacity_similarity.d - capacity_similarity.n,
                                            capacity_similarity.d), Frac(3, 10)))
              ELSE s1
        s3 == IF hasPrice THEN FracAdd(s2, FracMul(price_similarity, Frac(2, 10))) ELSE s2
        s4 == IF location_filter # None /\ location_filter[1] # <<>> /\ location_match
              THEN FracAdd(s3, Frac(1, 10)) ELSE s3
    IN  [score |-> s4,
         score_components |->
            ("text_similarity" :> text_similarity)
            @@ (IF hasCapacity THEN "capacity_similarity" :> capacity_similarity ELSE EmptyDict)
            @@ (IF hasPrice THEN "price_similarity" :> price_similarity ELSE EmptyDict)
            @@ (IF location_filter # None /\ location_filter[1] # <<>>
                THEN "location_match" :> location_match ELSE EmptyDict)]

\* the body of the loop of search_accommodations: [score, score_components]
ScoreOf(accommodation, query, target_capacity, target_price, location_filter) ==
    LET text_features ==
            (IF accommodation.facility_name # <<>> THEN <<accommodation.facility_name>> ELSE <<>>)
            \o (IF accommodation.amenities # <<>> THEN <<accommodation.amenities>> ELSE <<>>)
            \o (IF accommodation.facility_type # <<>> THEN <<accommodation.facility_type>> ELSE <<>>)
        text_similarity == calculate_text_similarity(query, Join(text_features, <<" ">>))
        hasCapacity == Truthy(target_capacity) /\ Truthy(accommodation.capacity_standard)
        capacity_similarity ==
            calculate_capacity_similarity(target_capacity[1], accommodation.capacity_standard[1])
        hasPrice == Truthy(target_price) /\ accommodation.price_off_weekday # 0
        price_similarity ==
            calculate_price_similarity(target_price[1], accommodation.price_off_weekday)
        location_match ==
            location_filter = None
            \/ In(Lower(location_filter[1]),
                  IF accommodation.sido # <<>> THEN Lower(accommodation.sido)
                  ELSE Lower(accommodation.forest_name))
        s1 == FracMul(text_similarity, Frac(4, 10))
        s2 == IF hasCapacity THEN FracAdd(s1, FracMul(capacity_similarity, Frac(3, 10))) ELSE s1
        s3 == IF hasPrice THEN FracAdd(s2, FracMul(price_similarity, Frac(2, 10))) ELSE s2
        s4 == IF location_filter # None /\ location_filter[1] # <<>> /\ location_match
              THEN FracAdd(s3, Frac(1, 10)) ELSE s3
    IN  [score |-> s4,
         score_components |->
            ("text_similarity" :> text_similarity)
            @@ (IF hasCapacity THEN "capacity_similarity" :> capacity_similarity ELSE EmptyDict)
            @@ (IF hasPrice THEN "price_similarity" :> price_similarity ELSE EmptyDict)
            @@ (IF location_filter # None /\ location_filter[1] # <<>>
                THEN "location_match" :> location_match ELSE EmptyDict)]

\* list.sort(key=..., reverse=True): descending and stable
RECURSIVE SortDesc(_, _)
SortDesc(items, key) ==
    IF items = <<>> THEN <<>>
    ELSE LET sorted == SortDesc(SubSeq(items, 1, Len(items) - 1), key)
             x == items[Len(items)]
             n == Cardinality({i \in DOMAIN sorted : sorted[i][key] >= x[key]})
         IN  SubSeq(sorted, 1, n) \o <<x>> \o SubSeq(sorted, n + 1, Len(sorted))

\* a mutation: no minimum score
search_accommodations_NoThreshold(cache, query, target_capacity, target_price, location_filter, top_k) ==
    LET scored(a) == ScoreOf(a, query, target_capacity, target_price, location_filter)
        recommendations ==
            [i \in DOMAIN cache |->
                [accommodation_id |-> cache[i].accommodation_id,
                 capacity_standard |-> cache[i].capacity_standard,
                 price_off_weekday |-> cache[i].price_off_weekday,
                 similarity_score |-> Round3(scored(cache[i]).score),
                 score_components |-> scored(cache[i]).score_components]]
        sorted == SortDesc(recommendations, "similarity_score")
    IN  SubSeq(sorted, 1, IF top_k < Len(sorted) THEN top_k ELSE Len(sorted))

search_accommodations(cache, query, target_capacity, target_price, location_filter, top_k) ==
    LET scored(a) == ScoreOf(a, query, target_capacity, target_price, location_filter)
        kept == SelectSeq(cache, LAMBDA a : FracLess(Frac(1, 10), scored(a).score))
        recommendations ==
            [i \in DOMAIN kept |->
                [accommodation_id |-> kept[i].accommodation_id,
                 capacity_standard |-> kept[i].capacity_standard,
                 price_off_weekday |-> kept[i].price_off_weekday,
                 similarity_score |-> Round3(scored(kept[i]).score),
                 score_components |-> scored(kept[i]).score_components]]
        sorted == SortDesc(recommendations, "similarity_score")
    IN  SubSeq(sorted, 1, IF top_k < Len(sorted) THEN top_k ELSE Len(sorted))

Pension == "pensyeon"                \* '펜션'
Condo == "kondo"                     \* '콘도'
Thatched == "choga"                  \* '초가'
LogHouse == "tongnamu"               \* '통나무'
Lodge == "hyuyanggwan"               \* '휴양관'

\* popularity of one accommodation in hundredths; the comparison of a None
\* capacity with 4 raises TypeError
Popularity(accommodation) ==
    LET facility_type == Lower(accommodation.facility_type)
        byType == IF In(<<Pension>>, facility_type) \/ In(<<Condo>>, facility_type) THEN 30
                  ELSE IF In(<<Thatched>>, facility_type) \/ In(<<LogHouse>>, facility_type) THEN 40
                  ELSE IF In(<<Lodge>>, facility_type) THEN 20
                  ELSE 0
        amenity_count == Len(Split(accommodation.amenities, ";"))
        byAmenities == IF accommodation.amenities = <<>> THEN 0
                       ELSE IF amenity_count * 5 < 30 THEN amenity_count * 5 ELSE 30
        capacity == accommodation.capacity_standard
    IN  IF capacity = None THEN [raised |-> TRUE, score |-> 0]
        ELSE [raised |-> FALSE,
              score |-> byType + byAmenities
                        + (IF 4 <= capacity[1] /\ capacity[1] <= 8 THEN 20 ELSE 0)]

\* [raised, value]: the list, unless the loop raised
get_trending_accommodations(cache, top_k) ==
    LET kept == SelectSeq(cache, LAMBDA a : Popularity(a).score > 10)
        trending ==
            [i \in DOMAIN kept |->
                [accommodation_id |-> kept[i].accommodation_id,
                 capacity_standard |-> kept[i].capacity_standard,
                 price_off_weekday |-> kept[i].price_off_weekday,
                 popularity_score |-> Popularity(kept[i]).score * 10]]
        sorted == SortDesc(trending, "popularity_score")
    IN  IF \E i \in DOMAIN cache : Popularity(cache[i]).raised
        THEN [raised |-> TRUE, value |-> <<>>]
        ELSE [raised |-> FALSE,
              value |-> SubSeq(sorted, 1, IF top_k < Len(sorted) THEN top_k ELSE Len(sorted))]

PersonIn == "in"                     \* '인'
PersonMyeong == "myeong"             \* '명'

\* re.search(r'(\d+)(?:인|명|인용)', query): the first run of digits that
\* '인' or '명' follows, None when there is none
CapacityMatch(query) ==
    LET starts == {i \in DOMAIN query :
                      /\ query[i] \in Digits
                      /\ i = 1 \/ query[i - 1] \notin Digits
                      /\ LET e == i + Len(DigitRun(query, i))
                         IN  e <= Len(query) /\ query[e] \in {PersonIn, PersonMyeong}}
    IN  IF starts = {} THEN None
        ELSE Some(IntOf(DigitRun(query, CHOOSE i \in starts : \A j \in starts : i <= j)))

\* the search get_recommendations runs: the capacity is the preferred one,
\* else the one the query names
SearchOf(cache, query, preferences) ==
    LET given == DictGet(preferences, "capacity")
        target_capacity == IF ~ Truthy(given) /\ query # <<>> /\ CapacityMatch(query) # None
                           THEN CapacityMatch(query) ELSE given
    IN  IF cache = <<>> THEN <<>>
        ELSE search_accommodations(cache, query, target_capacity,
                                   DictGet(preferences, "price"),
                                   DictGet(preferences, "location"),
                                   IF Has(preferences, "top_k") THEN preferences["top_k"] ELSE 5)

\* [raised, value]: the results of the search, or the trending list with its
\* popularity_score copied to similarity_score when the search found nothing
get_recommendations(cache, query, preferences) ==
    LET results == SearchOf(cache, query, preferences)
        trending == get_trending_accommodations(cache, 5)
    IN  IF results # <<>> THEN [raised |-> FALSE, value |-> results]
        ELSE [raised |-> trending.raised,
              value |-> [i \in DOMAIN trending.value |->
                            trending.value[i]
                            @@ [similarity_score |-> trending.value[i].popularity_score]]]

\* the inputs of the engine: queries, preferences and cached accommodations
Query4 == <<"4", PersonIn, " ", "gajok", " ", "neolbeun", " ", "gaeksil">>
QueryUnknown == <<"jonjaehajianneungeomsaekeo", "9", "9", "9">>
Queries == {Query4, QueryUnknown, <<"6", PersonMyeong>>}

Preferences4 == ("capacity" :> 4) @@ ("price" :> 100000)
PreferenceSets ==
    {EmptyDict, Preferences4,
     Preferences4 @@ ("location" :> <<"gangwon">>),
     ("capacity" :> 4) @@ ("top_k" :> 1)}

Cached(name, type, amenities, capacity, price, sido) ==
    [accommodation_id |-> 0, facility_name |-> name, facility_type |-> type,
     amenities |-> amenities, capacity_standard |-> capacity,
     price_off_weekday |-> price, forest_name |-> <<"gyochon">>, sido |-> sido]

CachedNames == {<<"so", "na", "mu">>, <<"gajok", " ", "neolbeun">>}
CachedTypes == {<<Lodge>>, <<"gaeksil">>}
CachedSidos == {<<"gangwon">>, <<"gyeonggi">>}

FirstCached ==
    {Cached(n, t, a, c, p, s) :
        n \in CachedNames, t \in CachedTypes,
        a \in {<<>>, <<"TV", ";", "naengjanggo">>},
        c \in {None, Some(2), Some(4), Some(10)}, p \in {0, 90000, 300000},
        s \in CachedSidos}

SecondCached ==
    {Cached(n, <<"gaeksil">>, <<>>, Some(c), p, s) :
        n \in CachedNames, c \in {4, 10}, p \in {90000, 300000}, s \in CachedSidos}

\* load_accommodations: the rows read, numbered by accommodation_id
Caches ==
    {<<>>}
    \cup {<<[a EXCEPT !.accommodation_id = 1]>> : a \in FirstCached}
    \cup {<<[a EXCEPT !.accommodation_id = 1], [b EXCEPT !.accommodation_id = 2]>> :
             a \in FirstCached, b \in SecondCached}

RecommendInit ==
    /\ MatcherIdle
    /\ accommodations = <<>>
    /\ crawled_discount_policies = <<>>
    /\ Idle
    /\ AuthIdle
    /\ EmbedIdle
    /\ EngineIdle
    /\ ConnectionsIdle
    /\ call \in {Some([fn |-> "get_recommendations",
                       arg |-> [cache |-> c, query |-> q, preferences |-> p]]) :
                    c \in Caches, q \in Queries, p \in PreferenceSets}
    /\ returned = <<>>

\* engine.get_recommendations(query, preferences)
Recommend ==
    /\ call # None
    /\ call[1].fn = "get_recommendations"
    /\ returned = <<>>
    /\ returned' = <<get_recommendations(call[1].arg.cache, call[1].arg.query,
                                         call[1].arg.preferences)>>
    /\ UNCHANGED <<call, beside_call>>

RecommendNext == Recommend

SpecRecommend == RecommendInit /\ [][RecommendNext]_vars

----------------------------------------------------------------------------
(* C15 *)

C15_Called == call # None /\ call[1].fn = "get_recommendations" /\ returned # <<>>

\* C15 as stated: when the search finds nothing above the threshold,
\* get_recommendations returns the trending list, and that list is not
\* empty when the cache is not empty.
C15_FallbackIsNonEmpty ==
    (C15_Called /\ SearchOf(call[1].arg.cache, call[1].arg.query,
                            call[1].arg.preferences) = <<>>) =>
        /\ ~ returned[1].raised
        /\ Len(returned[1].value) =
              Len(get_trending_accommodations(call[1].arg.cache, 5).value)
        /\ call[1].arg.cache # <<>> => returned[1].value # <<>>

----------------------------------------------------------------------------
(* C16 *)

\* where accommodation id stands in the returned list, 0 when it is left out
C16_Rank(id) ==
    IF \E i \in DOMAIN returned[1].value : returned[1].value[i].accommodation_id = id
    THEN CHOOSE i \in DOMAIN returned[1].value : returned[1].value[i].accommodation_id = id
    ELSE 0

C16_IsA(a) == a.capacity_standard = Some(4) /\ a.price_off_weekday = 90000
C16_IsB(b) == b.capacity_standard = Some(10) /\ b.price_off_weekday = 300000

\* C16 as stated: with query '4인 가족 넓은 객실' and preferences
\* {capacity: 4, price: 100000}, an accommodation of capacity 4 and price
\* 90000 is ranked above one of capacity 10 and price 300000, whatever
\* their names, types and amenities.
C16_RanksAAboveB ==
    (/\ C15_Called
     /\ call[1].arg.query = Query4
     /\ call[1].arg.preferences = Preferences4
     /\ Len(call[1].arg.cache) = 2
     /\ C16_IsA(call[1].arg.cache[1])
     /\ C16_IsB(call[1].arg.cache[2])) =>
        /\ C16_Rank(1) # 0
        /\ C16_Rank(2) # 0 => C16_Rank(1) < C16_Rank(2)

----------------------------------------------------------------------------
(* C17 *)

\* a sub-score of a returned result in the order of its values: an absent
\* one adds nothing to the score
C17_Sub(r, k) ==
    IF ~ Has(r.score_components, k) THEN Frac(0, 1)
    ELSE IF k = "location_match"
    THEN (IF r.score_components[k] THEN Frac(1, 1) ELSE Frac(0, 1))
    ELSE r.score_components[k]

C17_Subs == {"text_similarity", "capacity_similarity", "price_similarity", "location_match"}

\* the results of the search that the call returned
C17_Results ==
    IF C15_Called /\ ~ returned[1].raised
    THEN {returned[1].value[i] : i \in {j \in DOMAIN returned[1].value :
                                          Has(returned[1].value[j], "score_components")}}
    ELSE {}

\* C17: of two results that agree on three of the sub-scores, the one with
\* the larger fourth sub-score never has the smaller total score.
C17_Monotonic ==
    \A x, y \in C17_Results : \A k \in C17_Subs :
        (/\ \A other \in C17_Subs \ {k} : C17_Sub(x, other) = C17_Sub(y, other)
         /\ ~ FracLess(C17_Sub(x, k), C17_Sub(y, k))) =>
            x.similarity_score >= y.similarity_score

\* two results differ in capacity similarity only, and in score
C17_Witness ==
    \E x, y \in C17_Results :
        /\ \A other \in C17_Subs \ {"capacity_similarity"} : C17_Sub(x, other) = C17_Sub(y, other)
        /\ C17_Sub(x, "text_similarity") # Frac(0, 1)
        /\ Has(x.score_components, "price_similarity")
        /\ FracLess(C17_Sub(y, "capacity_similarity"), C17_Sub(x, "capacity_similarity"))
        /\ x.similarity_score > y.similarity_score

----------------------------------------------------------------------------
(* embedding_model.py: HyurimBotEmbeddingEngine.generate_embeddings.        *)
(* cache_file is hyurimbot_embeddings.pkl, None while it does not exist;    *)
(* engines are the engines constructed over the same database directory.    *)
(* An embedding matrix is the sequence of its rows, a row being             *)
(* [model, accommodation_id]: what was encoded, and by which model.         *)

\* calls of generate_embeddings
MaxCalls == 2

EngineNames == {"e1", "e2"}
ModelNames == {"jhgan/ko-sroberta-multitask", "other-model"}

\* __init__: model_name, and the accommodations_data read from the database
EmbedInit ==
    /\ MatcherIdle
    /\ accommodations = <<>>
    /\ crawled_discount_policies = <<>>
    /\ Idle
    /\ AuthIdle
    /\ CallIdle
    /\ EngineIdle
    /\ ConnectionsIdle
    /\ cache_file = None
    /\ engines \in [EngineNames ->
                      {[model_name |-> m, accommodations_data |-> d, embeddings |-> None] :
                          m \in ModelNames, d \in {<<>>, <<1>>, <<1, 2>>}}]

\* self.model.encode(feature_texts) / _generate_tfidf_embeddings
Encode(engine) ==
    [i \in DOMAIN engine.accommodations_data |->
        [model |-> engine.model_name, accommodation_id |-> engine.accommodations_data[i]]]

\* cache_data as pickled
CacheData(engine) ==
    [embeddings |-> Encode(engine),
     accommodation_ids |-> engine.accommodations_data,
     model_name |-> engine.model_name,
     feature_count |-> Len(engine.accommodations_data)]

\* a cache file that open(..., 'wb') truncated and pickle.dump did not fill
Truncated == [truncated |-> TRUE]

\* generate_embeddings(force_regenerate):
\* [embeddings: self.embeddings afterwards, cache: the cache file afterwards,
\*  value: what is returned]; fails: "encode" when encoding raises, "dump"
\* when writing the cache raises, else "none"
generate_embeddings(engine, file, force_regenerate, fails) ==
    IF ~ force_regenerate /\ file # None /\ file[1] # Truncated
    THEN [embeddings |-> Some(file[1].embeddings), cache |-> file,
          value |-> file[1].embeddings]
    ELSE IF engine.accommodations_data = <<>>
    THEN [embeddings |-> engine.embeddings, cache |-> file, value |-> <<>>]
    ELSE IF fails = "encode"
    THEN [embeddings |-> engine.embeddings, cache |-> file, value |-> <<>>]
    ELSE IF fails = "dump"
    THEN [embeddings |-> Some(Encode(engine)), cache |-> Some(Truncated), value |-> <<>>]
    ELSE [embeddings |-> Some(Encode(engine)), cache |-> Some(CacheData(engine)),
          value |-> Encode(engine)]

GenerateEmbeddings ==
    /\ Len(returned) < MaxCalls
    /\ \E e \in EngineNames, force_regenerate \in BOOLEAN, fails \in {"none", "encode", "dump"} :
          LET r == generate_embeddings(engines[e], cache_file, force_regenerate, fails)
          IN  /\ call' = Some([fn |-> "generate_embeddings",
                               arg |-> [engine |-> e, force_regenerate |-> force_regenerate]])
              /\ returned' = Append(returned, r.value)
              /\ engines' = [engines EXCEPT ![e].embeddings = r.embeddings]
              /\ cache_file' = r.cache
    /\ UNCHANGED beside_embed

EmbedNext == GenerateEmbeddings

SpecEmbed == EmbedInit /\ [][EmbedNext]_vars

----------------------------------------------------------------------------
(* C18 *)

\* the engine of the call the step made
C18_Engine == engines[call'[1].arg.engine]

\* C18: the embedding cache is keyed by model name: an engine configured
\* with one model never loads embeddings cached by an engine configured
\* with a different model, so what generate_embeddings returns was never
\* encoded by a model other than the engine's own.
C18_NeverLoadsOtherModel ==
    [][returned' # returned =>
          \A i \in DOMAIN returned'[Len(returned')] :
              returned'[Len(returned')][i].model = C18_Engine.model_name
      ]_vars

----------------------------------------------------------------------------
(* _extract_price_info_from_popup called on price tables of its own *)

\* rows of the price table below its title row
MaxPriceRows == 3

\* '평일요금 : 75,000원', '평일요금 : 50,000원', '주말요금 : 134,000원', and a
\* cell that carries both fees
WeekdayCell75 == <<WeekdayFee, " ", ":", " ", "7", "5", ",", "0", "0", "0", Won>>
WeekdayCell50 == <<WeekdayFee, " ", ":", " ", "5", "0", ",", "0", "0", "0", Won>>
WeekendCell134 == <<WeekendFee, " ", ":", " ", "1", "3", "4", ",", "0", "0", "0", Won>>
BothFeesCell == WeekendCell134 \o <<" ">> \o WeekdayCell75

PriceRowKinds ==
    {[th |-> h, td |-> c] :
        h \in {None, Some(<<OffSeason>>), Some(<<PeakSeason>>), Some(<<"gubun">>)},
        c \in {None, Some(WeekdayCell75), Some(WeekdayCell50), Some(WeekendCell134),
               Some(BothFeesCell)}}

RECURSIVE PriceRowsUpTo(_)
PriceRowsUpTo(n) ==
    IF n = 0 THEN {<<>>}
    ELSE LET shorter == PriceRowsUpTo(n - 1)
         IN  shorter \cup {Append(s, r) : s \in {t \in shorter : Len(t) = n - 1},
                                          r \in PriceRowKinds}

\* the title row of the table: '가격정보'
PriceTitleRow == [th |-> Some(<<PriceInfo>>), td |-> None]

SeasonInit ==
    /\ MatcherIdle
    /\ accommodations = <<>>
    /\ crawled_discount_policies = <<>>
    /\ Idle
    /\ AuthIdle
    /\ EmbedIdle
    /\ EngineIdle
    /\ ConnectionsIdle
    /\ call \in {Some([fn |-> "_extract_price_info_from_popup",
                       arg |-> [tables |-> <<<<PriceTitleRow>> \o rows>>]]) :
                    rows \in PriceRowsUpTo(MaxPriceRows)}
    /\ returned = <<>>

\* self._extract_price_info_from_popup(page)
ExtractPriceInfo ==
    /\ call # None
    /\ call[1].fn = "_extract_price_info_from_popup"
    /\ returned = <<>>
    /\ returned' = <<_extract_price_info_from_popup(call[1].arg)>>
    /\ UNCHANGED <<call, beside_call>>

SeasonNext == ExtractPriceInfo

SpecSeason == SeasonInit /\ [][SeasonNext]_vars

----------------------------------------------------------------------------
(* C19 *)

C19_Called ==
    call # None /\ call[1].fn = "_extract_price_info_from_popup" /\ returned # <<>>

C19_Rows == call[1].arg.tables[1]

C19_NamesSeason(row) ==
    row.th # None /\ (In(<<OffSeason>>, row.th[1]) \/ In(<<PeakSeason>>, row.th[1]))

\* the season in force at row i: that of the nearest header at or above it
\* that names a season, "" when there is none
C19_SeasonAt(i) ==
    LET named == {j \in 1..i : C19_NamesSeason(C19_Rows[j])}
    IN  IF named = {} THEN ""
        ELSE LET j == CHOOSE j \in named : \A k \in named : k <= j
             IN  IF In(<<OffSeason>>, C19_Rows[j].th[1]) THEN "off" ELSE "peak"

C19_Field(season, day) ==
    CASE season = "off" /\ day = "weekday" -> "price_off_weekday"
      [] season = "off" /\ day = "weekend" -> "price_off_weekend"
      [] season = "peak" /\ day = "weekday" -> "price_peak_weekday"
      [] season = "peak" /\ day = "weekend" -> "price_peak_weekend"

\* the field is set by the last row that assigns it, and is absent when no
\* row does; assigns(i, day) says what the value cell of row i assigns
C19_ScanIs(assigns(_, _)) ==
    \A season \in {"off", "peak"}, day \in {"weekday", "weekend"} :
        LET rowsOf == {i \in DOMAIN C19_Rows :
                          /\ C19_Rows[i].td # None
                          /\ assigns(i, day)
                          /\ C19_SeasonAt(i) = season}
        IN  IF rowsOf = {} THEN ~ Has(returned[1], C19_Field(season, day))
            ELSE /\ Has(returned[1], C19_Field(season, day))
                 /\ returned[1][C19_Field(season, day)] =
                       _parse_price(C19_Rows[CHOOSE i \in rowsOf : \A k \in rowsOf : k <= i].td[1])

C19_AssignsEither(i, day) ==
    In(<<IF day = "weekday" THEN WeekdayFee ELSE WeekendFee>>, C19_Rows[i].td[1])

C19_AssignsFirst(i, day) ==
    IF day = "weekday" THEN In(<<WeekdayFee>>, C19_Rows[i].td[1])
    ELSE ~ In(<<WeekdayFee>>, C19_Rows[i].td[1]) /\ In(<<WeekendFee>>, C19_Rows[i].td[1])

\* C19 as stated: the season of a row is that of the nearest preceding
\* header naming '비수기' (off) or else '성수기' (peak); a value cell
\* containing '평일요금' assigns its price to the weekday field of that
\* season, one containing '주말요금' to the weekend field, and nothing is
\* assigned while no season has been named.
C19_SeasonScan == C19_Called => C19_ScanIs(C19_AssignsEither)

\* C19: as above, but the value cell is tested for '평일요금' first: a cell
\* containing '평일요금' assigns the weekday field only, and a cell assigns
\* the weekend field when it contains '주말요금' and not '평일요금'.
C19_SeasonScanWeekdayFirst == C19_Called => C19_ScanIs(C19_AssignsFirst)

\* a weekday fee above every header is dropped, the header in the row of the
\* next fee applies to it, and a header naming no season changes nothing
C19_Witness ==
    /\ C19_Called
    /\ C19_Rows = <<PriceTitleRow,
                    [th |-> None, td |-> Some(WeekdayCell50)],
                    [th |-> Some(<<PeakSeason>>), td |-> Some(WeekdayCell75)],
                    [th |-> Some(<<"gubun">>), td |-> Some(WeekendCell134)]>>
    /\ returned[1] = [price_peak_weekday |-> 75000, price_peak_weekend |-> 134000]

----------------------------------------------------------------------------
(* C20 *)

C20_Prices(row) ==
    {row.price_off_weekday, row.price_off_weekend,
     row.price_peak_weekday, row.price_peak_weekend}

\* data_status of get_accommodations_api: '상세' when amenities.strip() is
\* not empty
C20_Detailed(row) == Strip(row.amenities) # <<>>

\* C20 as stated: every stored accommodation is either entirely basic (no
\* amenities, the four prices zero) or fully populated (amenities and the
\* four prices set), and a detailed crawl that reports 'success' leaves its
\* accommodation with amenities, hence with data_status '상세'.
C20_BasicOrFullyPopulated ==
    /\ \A i \in DOMAIN accommodations :
          \/ ~ C20_Detailed(accommodations[i]) /\ C20_Prices(accommodations[i]) = {0}
          \/ C20_Detailed(accommodations[i]) /\ 0 \notin C20_Prices(accommodations[i])
    /\ (/\ request.route = "detailed"
        /\ pc = "respond"
        /\ result # None
        /\ Has(result[1], "status")
        /\ result[1].status = "success") =>
            C20_Detailed(accommodations[request.body.accommodation_id])

----------------------------------------------------------------------------
(* C21 *)

C21_Arg == call[1].arg

\* the capacity and the price the search is given (None when not given)
C21_TargetCapacity ==
    IF Truthy(DictGet(C21_Arg.preferences, "capacity"))
    THEN DictGet(C21_Arg.preferences, "capacity")
    ELSE CapacityMatch(C21_Arg.query)
C21_TargetPrice == DictGet(C21_Arg.preferences, "price")

\* max(0, 1 - |t - a| / max(t, a)) for positive t and a: the smaller over
\* the larger
C21_Closeness(t, a) == IF t >= a THEN Frac(a, t) ELSE Frac(t, a)

\* tenths * x as a fraction
C21_Term(tenths, x) == Frac(tenths * x.n, 10 * x.d)

C21_Text(a) ==
    calculate_text_similarity(
        C21_Arg.query,
        Join(SelectSeq(<<a.facility_name, a.amenities, a.facility_type>>,
                       LAMBDA t : t # <<>>), <<" ">>))

C21_HasCapacity(a) ==
    /\ C21_TargetCapacity # None /\ C21_TargetCapacity[1] # 0
    /\ a.capacity_standard # None /\ a.capacity_standard[1] # 0

C21_HasPrice(a) ==
    /\ C21_TargetPrice # None /\ C21_TargetPrice[1] # 0
    /\ a.price_off_weekday # 0

C21_LocationMatched(a) ==
    /\ Has(C21_Arg.preferences, "location")
    /\ In(C21_Arg.preferences["location"], a.sido)

\* 0.4 text + 0.3 capacity closeness + 0.2 price closeness + 0.1 [location]
C21_Score(a) ==
    LET cap == IF C21_HasCapacity(a)
               THEN C21_Term(3, C21_Closeness(C21_TargetCapacity[1], a.capacity_standard[1]))
               ELSE Frac(0, 1)
        price == IF C21_HasPrice(a)
                 THEN C21_Term(2, C21_Closeness(C21_TargetPrice[1], a.price_off_weekday))
                 ELSE Frac(0, 1)
        loc == IF C21_LocationMatched(a) THEN Frac(1, 10) ELSE Frac(0, 1)
    IN  FracAdd(FracAdd(C21_Term(4, C21_Text(a)), cap), FracAdd(price, loc))

\* C21: the score of every accommodation is 0.4 x text similarity + 0.3 x
\* capacity closeness + 0.2 x price closeness + 0.1 x [location matched],
\* the capacity (price) term being present only when target and stored
\* value are both given and not zero, each closeness being
\* max(0, 1 - |target - actual| / max(target, actual)); it lies between 0
\* and 1; a returned result carries that score rounded to three places, and
\* an accommodation is left out of fewer than top_k results only when its
\* score is not above 0.1.
C21_WeightedSum ==
    (C15_Called /\ ~ returned[1].raised) =>
        \A i \in DOMAIN C21_Arg.cache :
            LET a == C21_Arg.cache[i]
                expected == C21_Score(a)
                top_k == IF Has(C21_Arg.preferences, "top_k")
                         THEN C21_Arg.preferences["top_k"] ELSE 5
            IN  /\ expected.n >= 0 /\ expected.n <= expected.d
                /\ \A r \in C17_Results :
                      r.accommodation_id = i =>
                          /\ r.similarity_score = Round3(expected)
                          /\ r.similarity_score \in 0..1000
                          /\ Has(r.score_components, "capacity_similarity") = C21_HasCapacity(a)
                          /\ Has(r.score_components, "price_similarity") = C21_HasPrice(a)
                /\ (FracLess(Frac(1, 10), expected) /\ Len(returned[1].value) < top_k) =>
                      \E r \in C17_Results : r.accommodation_id = i

\* an accommodation scored on all four terms: 0.4 x 3/5 + 0.3 x 2/5 +
\* 0.2 x 1/3 + 0.1 = 0.527
C21_Witness ==
    /\ C15_Called
    /\ ~ returned[1].raised
    /\ \E r \in C17_Results :
          /\ r.score_components = [text_similarity |-> Frac(3, 5),
                                   capacity_similarity |-> Frac(2, 5),
                                   price_similarity |-> Frac(1, 3),
                                   location_match |-> TRUE]
          /\ r.similarity_score = 527

----------------------------------------------------------------------------
(* integrated_app.py: the module-level engines and init_recommendation_engine, *)
(* next to the crawls that change the accommodations table.                *)

\* load_accommodations: SELECT ... FROM accommodations a JOIN forests f ...
\* WHERE a.facility_name IS NOT NULL, as a list of dicts
LoadAccommodations(table) ==
    [i \in DOMAIN table |->
        [accommodation_id |-> i,
         facility_name |-> table[i].facility_name,
         facility_type |-> table[i].facility_type,
         amenities |-> table[i].amenities,
         price_off_weekday |-> table[i].price_off_weekday]]

\* BasicRecommendationEngine(db_path); the load swallows its exception and
\* leaves the cache empty
BasicEngine(table, loads) ==
    [accommodations_cache |-> IF loads THEN LoadAccommodations(table) ELSE <<>>]

\* build_search_index(db_path, force_rebuild=False): an engine over the
\* accommodations it read
VectorEngine(table) == [accommodations_data |-> LoadAccommodations(table)]

\* a mutation: the basic engine is constructed again on every call
InitEngine_Reloads ==
    /\ \E builds \in BOOLEAN, loads \in BOOLEAN :
          IF imports.USE_VECTOR_SEARCH /\ vector_search_engine = None /\ builds
          THEN /\ vector_search_engine' = Some(VectorEngine(accommodations))
               /\ UNCHANGED recommendation_engine
          ELSE /\ recommendation_engine' =
                      IF imports.BasicRecommendationEngine
                      THEN Some(BasicEngine(accommodations, loads))
                      ELSE None
               /\ UNCHANGED vector_search_engine
    /\ UNCHANGED <<imports, beside_engine>>

\* init_recommendation_engine(), called by index() and recommend();
\* builds: build_search_index returns, loads: load_accommodations reads the rows
InitEngine ==
    /\ \E builds \in BOOLEAN, loads \in BOOLEAN :
          IF imports.USE_VECTOR_SEARCH /\ vector_search_engine = None /\ builds
          THEN /\ vector_search_engine' = Some(VectorEngine(accommodations))
               /\ UNCHANGED recommendation_engine
          ELSE /\ recommendation_engine' =
                      IF recommendation_engine = None
                      THEN IF imports.BasicRecommendationEngine
                           THEN Some(BasicEngine(accommodations, loads))
                           ELSE None
                      ELSE recommendation_engine
               /\ UNCHANGED vector_search_engine
    /\ UNCHANGED <<imports, beside_engine>>

EnginePages ==
    { [rows |-> <<Row6(TypeCell, Name101, Price75, TRUE)>>, view |-> FullView],
      [rows |-> <<Row6(TypeCell, Name101, Price75, TRUE)>>, view |-> EmptyView] }

EngineStarts ==
    [app : {"dashboard", "integrated"},
     route : {"basic", "detailed", "discounts"},
     body : Bodies({"object"}, {"F1"}, {1})]

\* the imports at the top of integrated_app.py succeed or fail
EngineInit ==
    /\ MatcherIdle
    /\ accommodations = <<>>
    /\ crawled_discount_policies = <<>>
    /\ Idle
    /\ AuthIdle
    /\ CallIdle
    /\ EmbedIdle
    /\ imports \in [USE_VECTOR_SEARCH : BOOLEAN, BasicRecommendationEngine : BOOLEAN]
    /\ recommendation_engine = None
    /\ vector_search_engine = None
    /\ ConnectionsIdle

EngineNext ==
    \/ InitEngine
    \/ StartRequest(EngineStarts)
    \/ Lookup
    \/ Launch
    \/ Goto(EnginePages)
    \/ Wait
    \/ Extract
    \/ ExtractRaises
    \/ Collect
    \/ Close
    \/ Raise
    \/ PersistDetailed
    \/ PersistBasic
    \/ PersistDiscounts
    \/ PersistRaises
    \/ Respond

SpecEngine == EngineInit /\ [][EngineNext]_vars

----------------------------------------------------------------------------
(* C22 *)

\* C22: once init_recommendation_engine has set vector_search_engine or
\* recommendation_engine, no later call and no basic, detailed or discount
\* crawl changes that instance or the accommodation list it loaded.
C22_NeverInvalidated ==
    [][/\ vector_search_engine # None => vector_search_engine' = vector_search_engine
       /\ recommendation_engine # None => recommendation_engine' = recommendation_engine
      ]_vars

\* the basic engine was built on the empty table; a basic crawl has stored
\* an accommodation since, and the engine has been asked for again
C22_Witness ==
    /\ recommendation_engine = Some(BasicEngine(<<>>, TRUE))
    /\ accommodations # <<>>
    /\ LoadAccommodations(accommodations) # recommendation_engine[1].accommodations_cache
    /\ pc = "idle"
    /\ response # None

----------------------------------------------------------------------------
(* embedding_model.py: _create_rich_feature_text and _enhance_user_query *)

MaxQueryLen == 4

SmallFamily == <<"sogyumo", "gajok", " ", "keopeul", "yeohaeng">>     \* '소규모가족 커플여행'
MediumFamily == <<"junggan", "gajok", " ", "gajok", "yeohaeng">>      \* '중간가족 가족여행'
LargeFamily == <<"dae", "gajok", " ", "danche", "yeohaeng">>          \* '대가족 단체여행'

\* f"{n:,}" for an int n >= 0
RECURSIVE Thousands(_)
Thousands(n) ==
    IF n < 1000 THEN Str(n)
    ELSE LET low == Str(n % 1000)
             pad == IF Len(low) = 1 THEN <<"0", "0">> ELSE IF Len(low) = 2 THEN <<"0">> ELSE <<>>
         IN  Thousands(n \div 1000) \o <<",">> \o pad \o low

\* s.replace(a, b) for one-character a and b
ReplaceChar(s, a, b) == [i \in DOMAIN s |-> IF s[i] = a THEN b ELSE s[i]]

\* s[:n]
Prefix(s, n) == SubSeq(s, 1, IF n < Len(s) THEN n ELSE Len(s))

\* " | ".join(features) over the keys of the accommodation dict
_create_rich_feature_text(accommodation) ==
    LET capacity == accommodation.capacity_standard
        prices ==
            (IF Truthy(accommodation.price_off_weekday)
             THEN <<accommodation.price_off_weekday[1]>> ELSE <<>>)
            \o (IF Truthy(accommodation.price_peak_weekend)
                THEN <<accommodation.price_peak_weekend[1]>> ELSE <<>>)
        avg_price == (IF Len(prices) = 2 THEN prices[1] + prices[2] ELSE prices[1]) \div Len(prices)
        price_category ==
            IF avg_price < 100000 THEN <<"jeo", "gagyeokdae", " ", "gyeongjejeok">>
            ELSE IF avg_price < 200000 THEN <<"jung", "gagyeokdae", " ", "hamnijeok">>
            ELSE <<"go", "gagyeokdae", " ", "premium">>
        features ==
            (IF accommodation.facility_name # <<>>
             THEN << <<"siseol", ":", " ">> \o accommodation.facility_name >> ELSE <<>>)
            \o (IF accommodation.facility_type # <<>>
                THEN << <<"yuhyeong", ":", " ">> \o accommodation.facility_type >> ELSE <<>>)
            \o (IF accommodation.forest_name # <<>>
                THEN << <<"hyuyangnim", ":", " ">> \o accommodation.forest_name >> ELSE <<>>)
            \o (IF accommodation.sido # <<>>
                THEN << <<"jiyeok", ":", " ">> \o accommodation.sido >> ELSE <<>>)
            \o (IF Truthy(capacity)
                THEN << (IF capacity[1] <= 4 THEN SmallFamily \o <<" ", "2", "~", "4", PersonIn>>
                         ELSE IF capacity[1] <= 8 THEN MediumFamily \o <<" ", "4", "~", "8", PersonIn>>
                         ELSE LargeFamily \o <<" ", "8", PersonIn, "isang">>),
                        <<"suyong", PersonIn, Won, ":", " ">> \o Str(capacity[1]) \o <<PersonMyeong>> >>
                ELSE <<>>)
            \o (IF accommodation.amenities # <<>>
                THEN << <<"pyeonui", "siseol", ":", " ">> \o ReplaceChar(accommodation.amenities, ";", " ") >>
                ELSE <<>>)
            \o (IF prices # <<>>
                THEN << <<"gagyeok", ":", " ">> \o price_category,
                        <<"pyeonggyun", "yogeum", ":", " ">> \o Thousands(avg_price) \o <<Won>> >>
                ELSE <<>>)
            \o (IF accommodation.main_facilities # <<>>
                THEN << <<"budae", "siseol", ":", " ">> \o Prefix(accommodation.main_facilities, 100) >>
                ELSE <<>>)
            \o (IF accommodation.usage_info # <<>>
                THEN << <<"iyong", "annae", ":", " ">> \o Prefix(accommodation.usage_info, 100) >>
                ELSE <<>>)
    IN  Join(features, <<" ", "|", " ">>)

family_keywords == {"gajok", "ai", "eorini", "bumo", "halmeoni", "harabeoji", "janyeo"}
amenity_keywords == {"neolbeun", "kkaekkeuthan", "joyonghan", "pyeollihan", "jeonmang", "byu"}
region_keywords ==
    <<"jeju", "gangwon", "gyeonggi", "chungbuk", "chungnam",
      "jeonbuk", "jeonnam", "gyeongbuk", "gyeongnam">>
theme_keywords ==
    << [theme |-> "hilling", enhancement |-> <<"joyonghan", " ", "hyusik", " ", "sallimyok">>],
       [theme |-> "aektibiti", enhancement |-> <<"cheheom", "program", " ", "repocheu">>],
       [theme |-> "jayeon", enhancement |-> <<"sallimyok", " ", "jayeon", "hyuyang">>],
       [theme |-> "jeontong", enhancement |-> <<"choga", "jip", " ", "hanok", " ", "jeontong">>],
       [theme |-> "premium", enhancement |-> <<"gogeup", " ", "reoksyeori", " ", "teukgeup">>] >>

\* for theme, enhancement in theme_keywords.items(): from the i-th theme on
RECURSIVE EnhanceThemes(_, _)
EnhanceThemes(enhanced, i) ==
    IF i > Len(theme_keywords) THEN enhanced
    ELSE EnhanceThemes(IF In(<<theme_keywords[i].theme>>, enhanced)
                       THEN enhanced \o <<" ">> \o theme_keywords[i].enhancement
                       ELSE enhanced,
                       i + 1)

\* steps 2 to 5 of _enhance_user_query: family, amenity, region and theme keywords
EnhanceKeywords(sized) ==
    LET family == IF \E k \in family_keywords : In(<<k>>, sized)
                  THEN sized \o <<" ", "gajok", "chinhwajeok", " ", "pyeonui", "siseol">>
                  ELSE sized
        amenity == IF \E k \in amenity_keywords : In(<<k>>, family)
                   THEN family \o <<" ", "gogeup", "pyeonui", "siseol", " ", "kwaejeokhan">>
                   ELSE family
        found_regions == SelectSeq(region_keywords, LAMBDA r : In(<<r>>, amenity))
        region == IF found_regions # <<>>
                  THEN amenity \o <<" ">>
                       \o Join([i \in DOMAIN found_regions |-> <<found_regions[i]>>], <<" ">>)
                       \o <<"jiyeok">>
                  ELSE amenity
    IN  EnhanceThemes(region, 1)

\* a mutation: the small bucket ends below 4
_enhance_user_query_Below4(query) ==
    LET enhanced == Strip(query)
        capacity_match == CapacityMatch(enhanced)
    IN  EnhanceKeywords(
            IF capacity_match = None THEN enhanced
            ELSE IF capacity_match[1] < 4 THEN enhanced \o <<" ">> \o SmallFamily
            ELSE IF capacity_match[1] <= 8 THEN enhanced \o <<" ">> \o MediumFamily
            ELSE enhanced \o <<" ">> \o LargeFamily)

_enhance_user_query(query) ==
    LET enhanced == Strip(query)
        capacity_match == CapacityMatch(enhanced)
    IN  EnhanceKeywords(
            IF capacity_match = None THEN enhanced
            ELSE IF capacity_match[1] <= 4 THEN enhanced \o <<" ">> \o SmallFamily
            ELSE IF capacity_match[1] <= 8 THEN enhanced \o <<" ">> \o MediumFamily
            ELSE enhanced \o <<" ">> \o LargeFamily)

QueryAlphabet == {"1", "4", "5", "8", "9", PersonIn, PersonMyeong, " ", "gajok", "jayeon"}

RECURSIVE QueriesUpTo(_)
QueriesUpTo(n) ==
    IF n = 0 THEN {<<>>}
    ELSE LET shorter == QueriesUpTo(n - 1)
         IN  shorter \cup {Append(s, c) : s \in {t \in shorter : Len(t) = n - 1},
                                          c \in QueryAlphabet}

\* '강원 제주 넓은 힐링 6명'
QueryRegions == <<"gangwon", " ", "jeju", " ", "neolbeun", " ", "hilling", " ", "6", PersonMyeong>>

Described ==
    [facility_name : {<<>>, <<"so", "na", "mu">>},
     facility_type : {<<>>},
     forest_name : {<<>>},
     sido : {<<>>, <<"gangwon">>},
     capacity_standard : {None} \cup {Some(n) : n \in 0..12},
     amenities : {<<>>, <<"TV", ";", "wifi">>},
     price_off_weekday : {None, Some(75000)},
     price_peak_weekend : {None, Some(1250000)},
     main_facilities : {<<>>},
     usage_info : {<<>>}]

QueryInit ==
    /\ MatcherIdle
    /\ accommodations = <<>>
    /\ crawled_discount_policies = <<>>
    /\ Idle
    /\ AuthIdle
    /\ EmbedIdle
    /\ EngineIdle
    /\ ConnectionsIdle
    /\ call \in {Some([fn |-> "_enhance_user_query", arg |-> q]) :
                    q \in QueriesUpTo(MaxQueryLen) \cup {QueryRegions}}
               \cup {Some([fn |-> "_create_rich_feature_text", arg |-> a]) : a \in Described}
    /\ returned = <<>>

\* self._enhance_user_query(query)
EnhanceUserQuery ==
    /\ call # None
    /\ call[1].fn = "_enhance_user_query"
    /\ returned = <<>>
    /\ returned' = <<_enhance_user_query(call[1].arg)>>
    /\ UNCHANGED <<call, beside_call>>

\* self._create_rich_feature_text(accommodation)
CreateRichFeatureText ==
    /\ call # None
    /\ call[1].fn = "_create_rich_feature_text"
    /\ returned = <<>>
    /\ returned' = <<_create_rich_feature_text(call[1].arg)>>
    /\ UNCHANGED <<call, beside_call>>

QueryNext ==
    \/ EnhanceUserQuery
    \/ CreateRichFeatureText

SpecQuery == QueryInit /\ [][QueryNext]_vars

----------------------------------------------------------------------------
(* C23 *)

\* the size bucket of a count
C23_Bucket(n) ==
    IF n <= 4 THEN SmallFamily ELSE IF n <= 8 THEN MediumFamily ELSE LargeFamily

C23_Buckets == {SmallFamily, MediumFamily, LargeFamily}

\* how often a phrase occurs in a text
C23_Occurrences(phrase, text) ==
    Cardinality({i \in 1..(Len(text) - Len(phrase) + 1) :
                    SubSeq(text, i, i + Len(phrase) - 1) = phrase})

\* the counts of the query: each maximal run of digits that '인' or '명' follows
C23_Counts(query) ==
    {i \in DOMAIN query :
        /\ query[i] \in Digits
        /\ i = 1 \/ query[i - 1] \notin Digits
        /\ LET e == i + Len(DigitRun(query, i))
           IN  e <= Len(query) /\ query[e] \in {PersonIn, PersonMyeong}}

C23_Enhanced == call # None /\ call[1].fn = "_enhance_user_query" /\ returned # <<>>

\* what the query was extended with
C23_Appended == SubSeq(returned[1], Len(Strip(call[1].arg)) + 1, Len(returned[1]))

\* the feature text of an accommodation of capacity n names the bucket b and no other
C23_FeatureBucket(n, b) ==
    LET text == _create_rich_feature_text(
                    [facility_name |-> <<>>, facility_type |-> <<>>, forest_name |-> <<>>,
                     sido |-> <<>>, capacity_standard |-> Some(n), amenities |-> <<>>,
                     price_off_weekday |-> None, price_peak_weekend |-> None,
                     main_facilities |-> <<>>, usage_info |-> <<>>])
    IN  \A other \in C23_Buckets : In(other, text) <=> other = b

\* C23 as stated: the result extends the stripped query, and for a count n
\* of the query followed by '인' or '명' exactly one size-bucket phrase is
\* appended, the one of n, which is the bucket of the feature text for
\* capacity_standard = n when n >= 1.
C23_BucketOfAnyCount ==
    C23_Enhanced =>
        LET base == Strip(call[1].arg)
        IN  /\ SubSeq(returned[1], 1, Len(base)) = base
            /\ \A i \in C23_Counts(base) :
                  LET n == IntOf(DigitRun(base, i))
                  IN  /\ \A b \in C23_Buckets :
                            C23_Occurrences(<<" ">> \o b, C23_Appended)
                                = IF b = C23_Bucket(n) THEN 1 ELSE 0
                      /\ n >= 1 => C23_FeatureBucket(n, C23_Bucket(n))

\* C23, amended: the same with n the first count of the query that '인' or
\* '명' follows; later counts are not looked at.
C23_BucketOfFirstCount ==
    C23_Enhanced =>
        LET base == Strip(call[1].arg)
            counts == C23_Counts(base)
        IN  /\ SubSeq(returned[1], 1, Len(base)) = base
            /\ counts # {} =>
                  LET n == IntOf(DigitRun(base, CHOOSE i \in counts : \A j \in counts : i <= j))
                  IN  /\ \A b \in C23_Buckets :
                            C23_Occurrences(<<" ">> \o b, C23_Appended)
                                = IF b = C23_Bucket(n) THEN 1 ELSE 0
                      /\ n >= 1 => C23_FeatureBucket(n, C23_Bucket(n))

\* '4인9명' was enhanced: two counts of different buckets, the first one small
C23_Witness ==
    /\ C23_Enhanced
    /\ call[1].arg = <<"4", PersonIn, "9", PersonMyeong>>
    /\ C23_Appended = <<" ">> \o SmallFamily
                      \o <<" ", "gajok", "chinhwajeok", " ", "pyeonui", "siseol">>

----------------------------------------------------------------------------
(* Two requests saving at once: _save_accommodations_to_db and              *)
(* save_discount_policies(_to_integrated_db), each on its own connection,   *)
(* statement by statement. SQLite lets one connection write at a time; a    *)
(* connection reads the committed tables, or its own transaction once it    *)
(* has written.                                                             *)

MaxBatch == 2

Connections == {1, 2}

\* what a crawl hands to its save function
Batches ==
    { [kind |-> "accommodations", forest_id |-> "F1",
       items |-> CollectRows("F1", <<Row6(Name101, TypeCell, Price75, TRUE)>>)],
      [kind |-> "accommodations", forest_id |-> "F1",
       items |-> CollectRows("F1", <<Row6(Name102, TypeCell, Price75, TRUE),
                                     Row6(Name101, TypeCell, Price75or134, TRUE)>>)],
      [kind |-> "policies", forest_id |-> "F1",
       items |-> Prefix(DefaultPolicies, MaxBatch)] }

\* the tables as connection c sees them
Seen(c) ==
    IF connections[c].tx # None THEN connections[c].tx[1]
    ELSE [accommodations |-> accommodations,
          crawled_discount_policies |-> crawled_discount_policies]

\* conn = sqlite3.connect(...); cursor = conn.cursor()
Connect(c) ==
    /\ connections[c].pc = "idle"
    /\ \E batch \in Batches :
          connections' = [connections EXCEPT
                             ![c] = [pc |-> IF batch.items = <<>> THEN "commit" ELSE "select",
                                     batch |-> Some(batch), found |-> FALSE, tx |-> None]]
    /\ UNCHANGED <<beside_connections>>

\* cursor.execute("SELECT ... WHERE <key>"); cursor.fetchone()
Select(c) ==
    /\ connections[c].pc = "select"
    /\ LET batch == connections[c].batch[1]
           item == Head(batch.items)
           found == IF batch.kind = "accommodations"
                    THEN \E i \in DOMAIN Seen(c).accommodations :
                            SameAccommodation(Seen(c).accommodations[i], item)
                    ELSE \E i \in DOMAIN Seen(c).crawled_discount_policies :
                            SamePolicy(Seen(c).crawled_discount_policies[i], batch.forest_id, item)
       IN  connections' = [connections EXCEPT ![c].pc = "write", ![c].found = found]
    /\ UNCHANGED <<beside_connections>>

\* cursor.execute("UPDATE ...") when a row was fetched, else
\* cursor.execute("INSERT ..."); the first write opens the transaction and
\* waits while the other connection has one open
Write(c) ==
    /\ connections[c].pc = "write"
    /\ \A d \in Connections \ {c} : connections[d].tx = None
    /\ LET batch == connections[c].batch[1]
           item == Head(batch.items)
           seen == Seen(c)
           written ==
               IF batch.kind = "accommodations"
               THEN [seen EXCEPT !.accommodations =
                        IF connections[c].found
                        THEN [i \in DOMAIN @ |->
                                 IF SameAccommodation(@[i], item)
                                 THEN UpdatedAccommodationRow(@[i], item) ELSE @[i]]
                        ELSE Append(@, NewAccommodationRow(item))]
               ELSE [seen EXCEPT !.crawled_discount_policies =
                        IF connections[c].found
                        THEN [i \in DOMAIN @ |->
                                 IF SamePolicy(@[i], batch.forest_id, item)
                                 THEN [@[i] EXCEPT !.discount_type = item.discount_type,
                                                   !.discount_rate = item.discount_rate]
                                 ELSE @[i]]
                        ELSE Append(@, NewPolicyRow(batch.forest_id, item))]
       IN  connections' = [connections EXCEPT
                              ![c].pc = IF Len(batch.items) > 1 THEN "select" ELSE "commit",
                              ![c].batch = Some([batch EXCEPT !.items = Tail(@)]),
                              ![c].tx = Some(written)]
    /\ UNCHANGED <<beside_connections>>

\* the write gives up waiting: sqlite3.OperationalError (database is locked),
\* caught by the except of the save function; nothing of this connection is
\* committed
Locked(c) ==
    /\ connections[c].pc = "write"
    /\ \E d \in Connections \ {c} : connections[d].tx # None
    /\ connections' = [connections EXCEPT ![c].pc = "failed", ![c].tx = None]
    /\ UNCHANGED <<beside_connections>>

\* conn.commit(); conn.close()
Commit(c) ==
    /\ connections[c].pc = "commit"
    /\ IF connections[c].tx # None
       THEN /\ accommodations' = connections[c].tx[1].accommodations
            /\ crawled_discount_policies' = connections[c].tx[1].crawled_discount_policies
       ELSE UNCHANGED dbvars
    /\ connections' = [connections EXCEPT ![c].pc = "done", ![c].tx = None]
    /\ UNCHANGED <<mvars, cvars, avars, fvars, evars, gvars>>

ConcurrentInit ==
    /\ MatcherIdle
    /\ accommodations = <<>>
    /\ crawled_discount_policies = <<>>
    /\ Idle
    /\ AuthIdle
    /\ CallIdle
    /\ EmbedIdle
    /\ EngineIdle
    /\ ConnectionsIdle

ConcurrentNext ==
    \E c \in Connections :
        \/ Connect(c)
        \/ Select(c)
        \/ Write(c)
        \/ Locked(c)
        \/ Commit(c)

SpecConcurrent == ConcurrentInit /\ [][ConcurrentNext]_vars

----------------------------------------------------------------------------
(* C24 *)

\* C24: with two requests saving the same natural key at once, each on its
\* own connection, the tables hold at most one row per (forest_id,
\* facility_name) and per (forest_id, policy_category, target_group).
C24_OneRowPerKey ==
    /\ \A i, j \in DOMAIN accommodations :
          SameAccommodation(accommodations[i], accommodations[j]) => i = j
    /\ \A i, j \in DOMAIN crawled_discount_policies :
          SamePolicy(crawled_discount_policies[i], crawled_discount_policies[i].forest_id,
                     crawled_discount_policies[j])
              /\ crawled_discount_policies[i].forest_id = crawled_discount_policies[j].forest_id
          => i = j

----------------------------------------------------------------------------
(* C25 *)

\* the rows of the page from which the basic crawl stores the name the
\* detailed crawl is looking for
C25_StoredFrom ==
    {r \in DOMAIN page[1].rows :
        /\ page[1].rows[r].readable
        /\ Len(page[1].rows[r].cells) >= 6
        /\ AccommodationData(request.body.forest_id, page[1].rows[r]).facility_name = target}

\* C25: a facility stored by the basic crawl from table row R is found again
\* by the detailed crawl of the same page: once the detailed crawl has
\* scanned the rows, the row it selected is a row the stored name came from.
C25_DetailFindsStoredRow ==
    (/\ request.route = "detailed"
     /\ pc = "close"
     /\ page # None
     /\ \A i \in DOMAIN log : log[i] # "raised"
     /\ C25_StoredFrom # {})
    => target_row \in C25_StoredFrom

----------------------------------------------------------------------------
(* C26 *)

\* C26: for a target name that is non-empty after normalization, the
\* matcher never accepts a row whose facility-name cell is empty or made
\* of spaces and periods only (whose normalized name is the empty string).
C26_EmptyNameNeverMatches ==
    (/\ mpc = "compared"
     /\ Clean(target_facility_name) # <<>>
     /\ Clean(facility_name) = <<>>)
    => ~accepted

----------------------------------------------------------------------------
(* admin_dashboard/app.py: the routes of the dashboard application, served *)
(* next to those of integrated_app.py to the same client.                  *)

\* the routes of admin_dashboard/app.py; none is decorated
DashboardPaths ==
    {"/", "/api/forests", "/api/accommodations", "/api/facilities", "/api/discounts",
     "/api/crawl/basic", "/api/crawl/detailed", "/api/crawl/discount-policies"}

\* what the handler of a dashboard route may do
DashboardEffects(path) ==
    IF path = "/" THEN {}
    ELSE IF path = "/api/crawl/basic" THEN {"crawl", "db_write"}
    ELSE IF path = "/api/crawl/detailed" THEN {"db_read", "crawl", "db_write"}
    ELSE IF path = "/api/crawl/discount-policies" THEN {"crawl", "db_write"}
    ELSE {"db_read"}

\* a request to a route of the dashboard application: the handler is called
\* whatever the client's session holds
Dashboard ==
    /\ Len(visits) < MaxVisits
    /\ \E path \in DashboardPaths :
          visits' = Append(visits, Visit("", path, EmptyDict, "handler",
                                         DashboardEffects(path)))
    /\ UNCHANGED <<session, beside_auth>>

RoutesNext ==
    \/ Login
    \/ Logout
    \/ Admin
    \/ Dashboard

SpecRoutes == Init /\ [][RoutesNext]_vars

----------------------------------------------------------------------------
(* C27 *)

\* the request the step served
C27_Served == visits'[Len(visits')]

\* C27: through no route of either application does a request of a client
\* without an authenticated admin session reach an operation that writes
\* to the database (basic, detailed or discount-policy crawl).
C27_WritesNeedAdmin ==
    [][(visits' # visits /\ "db_write" \in C27_Served.effects)
           => (DictGet(session, "user_id") # None /\ DictGet(session, "role") = Some("admin"))
      ]_vars

----------------------------------------------------------------------------
(* C28 *)

\* the request the step served
C28_Served == visits'[Len(visits')]

\* a POST /login with the configured name and password
C28_SuccessfulLogin(v) ==
    /\ v.path = "/login"
    /\ v.method = "POST"
    /\ v.form = ("username" :> "admin") @@ ("password" :> "hyurimbot2025")

\* the requests so far that decide the authentication
C28_Deciding(history) ==
    {i \in DOMAIN history : C28_SuccessfulLogin(history[i]) \/ history[i].path = "/logout"}

\* the session is authenticated exactly when the most recent successful
\* login or logout is a successful login
C28_LastDecides(s, history) ==
    admin_required(s) <=>
        /\ C28_Deciding(history) # {}
        /\ LET last == CHOOSE i \in C28_Deciding(history) :
                           \A j \in C28_Deciding(history) : j <= i
           IN  history[last].path = "/login"

\* what the session says about who the client is
C28_Identity(s) == [k \in DOMAIN s \ {"_flashes"} |-> s[k]]

\* an unauthenticated request to an admin route is redirected to /login
C28_Redirected ==
    (C28_Served.path \in AdminPaths /\ ~ admin_required(session))
        => C28_Served.outcome = "redirect:/login"

\* C28 as stated: the session is admin-authenticated exactly when the most
\* recent of the successful logins and logouts is a successful login; a
\* failed login attempt leaves the session unchanged; an unauthenticated
\* request to an admin route is redirected to /login.
C28_FailedLoginKeepsSession ==
    [][visits' # visits =>
          /\ C28_LastDecides(session', visits')
          /\ (C28_Served.path = "/login" /\ C28_Served.method = "POST"
                  /\ ~ C28_SuccessfulLogin(C28_Served))
                => session' = session
          /\ C28_Redirected
      ]_vars

\* C28, amended: the same, where a failed login attempt leaves unchanged
\* what the session holds besides the flashed messages (user_id, role,
\* permanence); the messages waiting in the session are shown by the login
\* form and removed.
C28_FailedLoginKeepsIdentity ==
    [][visits' # visits =>
          /\ C28_LastDecides(session', visits')
          /\ (C28_Served.path = "/login" /\ C28_Served.method = "POST"
                  /\ ~ C28_SuccessfulLogin(C28_Served))
                => /\ C28_Identity(session') = C28_Identity(session)
                   /\ ~ Has(session', "_flashes")
          /\ C28_Redirected
      ]_vars

\* the client logged in, then typed a wrong password, and is still served
\* by an admin route
C28_Witness ==
    /\ Len(visits) = 3
    /\ C28_SuccessfulLogin(visits[1])
    /\ visits[2].path = "/login"
    /\ visits[2].method = "POST"
    /\ visits[2].form = ("username" :> "admin") @@ ("password" :> "")
    /\ visits[3].path = "/admin/api/crawl/discounts"
    /\ visits[3].outcome = "handler"
    /\ admin_required(session)

----------------------------------------------------------------------------
(* search_accommodations called on its own, on caches whose scores meet    *)
(* the threshold and the rounding of similarity_score                      *)

MaxCached == 3

SearchedPrices == {200, 99990, 100000}

\* an accommodation that differs from the others in price and region only
Searched(price, sido) == Cached(<<>>, <<>>, <<>>, None, price, sido)

RECURSIVE SearchCachesUpTo(_)
SearchCachesUpTo(n) ==
    IF n = 0 THEN {<<>>}
    ELSE LET shorter == SearchCachesUpTo(n - 1)
         IN  shorter
             \cup {Append(c, [Searched(p, s) EXCEPT !.accommodation_id = n]) :
                      c \in {t \in shorter : Len(t) = n - 1},
                      p \in SearchedPrices, s \in {<<"gangwon">>, <<"jeju">>}}

SearchInit ==
    /\ MatcherIdle
    /\ accommodations = <<>>
    /\ crawled_discount_policies = <<>>
    /\ Idle
    /\ AuthIdle
    /\ EmbedIdle
    /\ EngineIdle
    /\ ConnectionsIdle
    /\ call \in {Some([fn |-> "search_accommodations",
                       arg |-> [cache |-> c, query |-> <<>>, target_capacity |-> None,
                                target_price |-> Some(100000), location_filter |-> f,
                                top_k |-> k]]) :
                    c \in SearchCachesUpTo(MaxCached),
                    f \in {None, Some(<<"gangwon">>)},
                    k \in 1..2}
    /\ returned = <<>>

\* engine.search_accommodations(query, target_capacity, target_price,
\* location_filter, top_k)
Search ==
    /\ call # None
    /\ call[1].fn = "search_accommodations"
    /\ returned = <<>>
    /\ returned' = <<IF call[1].arg.cache = <<>> THEN <<>>
                     ELSE search_accommodations(call[1].arg.cache, call[1].arg.query,
                                                call[1].arg.target_capacity,
                                                call[1].arg.target_price,
                                                call[1].arg.location_filter,
                                                call[1].arg.top_k)>>
    /\ UNCHANGED <<call, beside_call>>

SearchNext == Search

SpecSearch == SearchInit /\ [][SearchNext]_vars

----------------------------------------------------------------------------
(* C29 *)

C29_Searched == call # None /\ call[1].fn = "search_accommodations" /\ returned # <<>>

\* the score the loop computes for the i-th cached accommodation
C29_Score(i) ==
    ScoreOf(call[1].arg.cache[i], call[1].arg.query, call[1].arg.target_capacity,
            call[1].arg.target_price, call[1].arg.location_filter).score

\* the cached accommodations the result holds
C29_Returned == {returned[1][j].accommodation_id : j \in DOMAIN returned[1]}

\* at most top_k results, in non-increasing order of similarity_score
C29_TopKInOrder ==
    /\ Len(returned[1]) <= call[1].arg.top_k
    /\ \A i, j \in DOMAIN returned[1] :
          i < j => returned[1][i].similarity_score >= returned[1][j].similarity_score

\* C29 as stated, the score being the similarity_score a result carries
\* (the computed score rounded to thousandths): at most top_k results in
\* non-increasing order of score, each score above 0.1, and no cached
\* accommodation left out has a score above 0.1 that is higher than the one
\* of a returned accommodation.
C29_BestByScore ==
    C29_Searched =>
        /\ C29_TopKInOrder
        /\ \A j \in DOMAIN returned[1] : returned[1][j].similarity_score > 100
        /\ \A i \in DOMAIN call[1].arg.cache \ C29_Returned :
           \A j \in DOMAIN returned[1] :
              ~ (/\ Round3(C29_Score(i)) > 100
                 /\ Round3(C29_Score(i)) > returned[1][j].similarity_score)

\* C29, amended: the threshold is applied to the computed score and the
\* order to the rounded one. Every result has a computed score above 0.1
\* (its similarity_score may be exactly 0.1); results are in non-increasing
\* order of similarity_score; an accommodation left out with a computed
\* score above 0.1 has no higher similarity_score than any result, and
\* results are missing only when top_k are returned.
C29_BestByRoundedScore ==
    C29_Searched =>
        /\ C29_TopKInOrder
        /\ \A j \in DOMAIN returned[1] :
              /\ FracLess(Frac(1, 10), C29_Score(returned[1][j].accommodation_id))
              /\ returned[1][j].similarity_score
                    = Round3(C29_Score(returned[1][j].accommodation_id))
              /\ returned[1][j].similarity_score >= 100
        /\ \A i \in DOMAIN call[1].arg.cache \ C29_Returned :
              FracLess(Frac(1, 10), C29_Score(i)) =>
                 /\ Len(returned[1]) = call[1].arg.top_k
                 /\ \A j \in DOMAIN returned[1] :
                       Round3(C29_Score(i)) <= returned[1][j].similarity_score

\* of two accommodations whose scores round to 0.2 the first cached one is
\* returned and the one with the higher computed score is left out
C29_Witness ==
    /\ C29_Searched
    /\ call[1].arg.top_k = 1
    /\ Len(call[1].arg.cache) = 2
    /\ C29_Returned = {1}
    /\ returned[1][1].similarity_score = 200
    /\ FracLess(C29_Score(1), C29_Score(2))

----------------------------------------------------------------------------
(* C30 *)

\* the engine whose generate_embeddings the step called
C30_Engine == engines[call'[1].arg.engine]

\* C30: whenever generate_embeddings returns a non-empty matrix, it has
\* len(accommodations_data) rows and row i is the embedding of
\* accommodations_data[i], also when the matrix comes from the disk cache
\* and the accommodations read by the engine are not those cached.
C30_RowsFollowAccommodations ==
    [][(returned' # returned /\ returned'[Len(returned')] # <<>>) =>
          /\ Len(returned'[Len(returned')]) = Len(C30_Engine.accommodations_data)
          /\ \A i \in DOMAIN returned'[Len(returned')] :
                returned'[Len(returned')][i].accommodation_id
                    = C30_Engine.accommodations_data[i]
      ]_vars

====
